---- MODULE Spec2Model ----
(***************************************************************************)
(* Model of the dibbla-cli deployment pipeline (package deploy): directory *)
(* walk with exclusion rules, in-memory tar.gz archive, size guard,        *)
(* multipart upload and response handling.                                 *)
(*                                                                         *)
(* Strings are sequences of one-character strings, so that Base, Ext,      *)
(* ToLower, HasPrefix, Index and the JSON encoder are computed the way the *)
(* Go code computes them.                                                  *)
(***************************************************************************)
EXTENDS Integers, Sequences, FiniteSets, TLC

VARIABLES
    hostSep,    \* os.PathSeparator of the build: "/" or "\\"
    rootName,   \* base name of the directory being deployed
    tree,       \* the directory tree below the root: sequence of nodes
    opts,       \* deploy.Options given to Run
    pc,         \* position of Run
    todo,       \* filepath.Walk: nodes still to be visited, next first
    tw,         \* tar.Writer: entries written, and a short-written file
    archive,    \* bytes returned by createArchive (NoArchive = nil)
    archErr,    \* error returned by createArchive (NoErr = nil)
    stages,     \* history: pipeline stages entered, in order
    opened,     \* history: paths given to os.Open
    call,       \* arguments of the running upload call (NoCall before it)
    body,       \* multipart parts written by upload
    requests,   \* HTTP requests dispatched by client.Do
    response,   \* the HTTP response received (none: <<>>)
    result,     \* (resp, err) returned by Run (not yet returned: <<>>)
    cmd,        \* the command line: command, flags, arguments, environment
    cpc,        \* position of the command's handler
    exit,       \* exit status of the process (still running: <<>>)
    done,       \* the done channel of the handler: "nil", "open", "closed"
    spinner,    \* position of the spinner goroutine
    frames,     \* spinner frames written
    stdout,     \* history: what was written to standard output, in order
    answer,     \* history: the answer given to the confirmation prompt
    apiCalls,   \* requests dispatched by the apps, db and secrets clients
    apiResult,  \* what the API call of the handler returned
    apiCause,   \* why the client function returned an error ("" when it did not)
    outFile     \* the output file of db dump: its state and the bytes in it

runVars == <<hostSep, rootName, tree, opts, pc, todo, tw, archive, archErr, stages,
             opened, call, body, requests, response, result>>
cmdVars == <<cmd, cpc, exit, done, spinner, frames, stdout, answer, apiCalls, apiResult,
             apiCause, outFile>>
vars == <<runVars, cmdVars>>

(***************************************************************************)
(* Bounds of the model.                                                    *)
(***************************************************************************)
MaxNodes == 3   \* nodes below the root
MaxEnv == 2     \* KEY=value arguments given to upload

(***************************************************************************)
(* Characters and strings.                                                 *)
(***************************************************************************)
\* The characters used, in ASCII order (sort.Strings compares bytes).
Ascii ==
    << "\"", ",", "-", ".", "/", "0", "1", "2", "5", "9", ":", "=",
       "A", "B", "C", "D", "E", "F", "G", "H", "I", "J", "K", "L", "M",
       "N", "O", "P", "Q", "R", "S", "T", "U", "V", "W", "X", "Y", "Z",
       "\\", "_",
       "a", "b", "c", "d", "e", "f", "g", "h", "i", "j", "k", "l", "m",
       "n", "o", "p", "q", "r", "s", "t", "u", "v", "w", "x", "y", "z",
       "{", "}" >>

CodeOf == [c \in {Ascii[i] : i \in DOMAIN Ascii} |-> CHOOSE i \in DOMAIN Ascii : Ascii[i] = c]
Code(c) == CodeOf[c]

IsUpper(c) == Code(c) >= Code("A") /\ Code(c) <= Code("Z")

\* strings.ToLower on ASCII text
ToLower(s) ==
    [i \in DOMAIN s |->
        IF IsUpper(s[i]) THEN Ascii[Code(s[i]) - Code("A") + Code("a")]
        ELSE s[i]]

\* strings.HasPrefix
HasPrefix(s, p) == Len(s) >= Len(p) /\ SubSeq(s, 1, Len(p)) = p

\* byte-wise s < t, the order of sort.Strings
RECURSIVE StrLess(_, _)
StrLess(s, t) ==
    IF t = <<>> THEN FALSE
    ELSE IF s = <<>> THEN TRUE
    ELSE IF Head(s) # Head(t) THEN Code(Head(s)) < Code(Head(t))
    ELSE StrLess(Tail(s), Tail(t))

Max(S) == CHOOSE x \in S : \A y \in S : y <= x
Min(S) == CHOOSE x \in S : \A y \in S : x <= y

(***************************************************************************)
(* Exclusion rules.                                                        *)
(***************************************************************************)
excludedPaths ==
    << << ".", "g", "i", "t" >>,
       << "n", "o", "d", "e", "_", "m", "o", "d", "u", "l", "e", "s" >>,
       << ".", "e", "n", "v", ".", "p", "r", "o", "d", "u", "c", "t", "i", "o", "n" >>,
       << ".", "e", "n", "v", ".", "p", "r", "o", "d" >>,
       << "i", "d", "_", "r", "s", "a" >>,
       << "i", "d", "_", "e", "d", "2", "5", "5", "1", "9" >>,
       << "i", "d", "_", "e", "c", "d", "s", "a" >>,
       << "i", "d", "_", "d", "s", "a" >>,
       << "c", "r", "e", "d", "e", "n", "t", "i", "a", "l", "s", ".", "j", "s", "o", "n" >>,
       << "s", "e", "r", "v", "i", "c", "e", "-", "a", "c", "c", "o", "u", "n", "t", ".", "j", "s", "o", "n" >> >>

excludedExtensions ==
    << << ".", "p", "e", "m" >>,
       << ".", "k", "e", "y" >>,
       << ".", "e", "x", "e" >>,
       << ".", "d", "l", "l" >>,
       << ".", "s", "o" >>,
       << ".", "d", "y", "l", "i", "b" >>,
       << ".", "b", "a", "t" >>,
       << ".", "c", "m", "d" >>,
       << ".", "c", "o", "m" >>,
       << ".", "m", "s", "i" >>,
       << ".", "s", "c", "r" >>,
       << ".", "p", "i", "f" >> >>

(***************************************************************************)
(* Host path semantics (package path/filepath).                            *)
(***************************************************************************)
HostSeps == {"/", "\\"}

\* os.IsPathSeparator: on Windows both separators split a path
IsPathSeparator(c) == c = hostSep \/ (hostSep = "\\" /\ c = "/")

\* index of the last separator of p, 0 when there is none
LastSep(p) == Max({0} \cup {i \in DOMAIN p : IsPathSeparator(p[i])})

\* filepath.Base of a clean, non-empty path without trailing separator
Base(p) == SubSeq(p, LastSep(p) + 1, Len(p))

\* filepath.Ext: from the last dot of the last element, "" without one
Ext(p) ==
    LET dots == {i \in DOMAIN p : i > LastSep(p) /\ p[i] = "."}
    IN  IF dots = {} THEN <<>> ELSE SubSeq(p, Max(dots), Len(p))

\* filepath.Join of path elements
RECURSIVE Join(_)
Join(segs) ==
    IF segs = <<>> THEN <<>>
    ELSE IF Len(segs) = 1 THEN segs[1]
    ELSE segs[1] \o <<hostSep>> \o Join(Tail(segs))

(***************************************************************************)
(* The file system: the deployed directory and the tree below it.          *)
(* Node 0 is the root directory; node i >= 1 is tree[i].                   *)
(***************************************************************************)
NameApp == << "a", "p", "p", ".", "g", "o" >>
NameGit == << ".", "g", "i", "t" >>
NameRsa == << "i", "d", "_", "r", "s", "a" >>
NamePem == << "K", ".", "P", "E", "M" >>
NameSub == << "s", "u", "b" >>

Names == {NameApp, NameGit, NameRsa, NamePem, NameSub}
RootNames == {NameApp, NameGit}

\* The forms a node takes: name, file type and, for a symbolic link, the
\* name of the sibling it points to.
NodeForms ==
    { [name |-> NameApp, kind |-> "regular", link |-> <<>>],
      [name |-> NameApp, kind |-> "symlink", link |-> NameSub],
      [name |-> NameApp, kind |-> "dir",     link |-> <<>>],
      [name |-> NameGit, kind |-> "dir",     link |-> <<>>],
      [name |-> NameRsa, kind |-> "regular", link |-> <<>>],
      [name |-> NamePem, kind |-> "regular", link |-> <<>>],
      [name |-> NameSub, kind |-> "dir",     link |-> <<>>],
      [name |-> NameSub, kind |-> "symlink", link |-> NameApp],
      [name |-> NameSub, kind |-> "socket",  link |-> <<>>] }

NodeChoices(k) ==
    {[parent |-> p, name |-> f.name, kind |-> f.kind, link |-> f.link] :
        p \in 0..(k - 1), f \in NodeForms}

RECURSIVE AncSelf(_, _)
AncSelf(t, n) == IF n = 0 THEN {0} ELSE {n} \cup AncSelf(t, t[n].parent)

\* A node may extend a tree when its parent is a directory and no sibling
\* has its name. Each tree is listed once: nodes are numbered parent
\* first, subtree by subtree, siblings by name.
ValidExt(t, x) ==
    /\ x.parent \in AncSelf(t, Len(t))
    /\ x.parent # 0 => t[x.parent].kind = "dir"
    /\ \A i \in DOMAIN t : t[i].parent = x.parent => StrLess(t[i].name, x.name)

RECURSIVE TreesOf(_)
TreesOf(k) ==
    IF k = 0 THEN {<<>>}
    ELSE UNION {{Append(t, x) : x \in {y \in NodeChoices(k) : ValidExt(t, y)}} :
                    t \in TreesOf(k - 1)}

Trees == UNION {TreesOf(k) : k \in 0..MaxNodes}

NoNode == 0 - 1

\* the directory of the end-to-end scenario: app.go, .git/, id_rsa
ExampleTree ==
    << [parent |-> 0, name |-> NameGit, kind |-> "dir", link |-> <<>>],
       [parent |-> 0, name |-> NameApp, kind |-> "regular", link |-> <<>>],
       [parent |-> 0, name |-> NameRsa, kind |-> "regular", link |-> <<>>] >>

Kind(n) == IF n = 0 THEN "dir" ELSE tree[n].kind
NodeName(n) == IF n = 0 THEN rootName ELSE tree[n].name

\* the entry called nm of directory d, NoNode when there is none
Child(d, nm) ==
    LET hits == {i \in DOMAIN tree : tree[i].parent = d /\ tree[i].name = nm}
    IN  IF hits = {} THEN NoNode ELSE CHOOSE i \in hits : TRUE

\* what the kernel resolves node n to when it follows symbolic links
\* (NoNode: dangling link or too many levels of links)
RECURSIVE Follow(_, _)
Follow(n, fuel) ==
    IF n = NoNode \/ Kind(n) # "symlink" THEN n
    ELSE IF fuel = 0 THEN NoNode
    ELSE Follow(Child(tree[n].parent, tree[n].link), fuel - 1)

\* the node a path below the root names; links in the directory part are
\* followed, the last element is not (lstat)
RECURSIVE Lookup(_)
Lookup(segs) ==
    IF segs = <<>> THEN 0
    ELSE LET d == Follow(Lookup(SubSeq(segs, 1, Len(segs) - 1)), Len(tree))
         IN  IF d = NoNode \/ Kind(d) # "dir" THEN NoNode
             ELSE Child(d, segs[Len(segs)])

\* the node os.Open and os.ReadDir reach through a path (links followed)
Resolve(segs) == Follow(Lookup(segs), Len(tree))

\* the path elements of node n below the root
RECURSIVE Segs(_)
Segs(n) == IF n = 0 THEN <<>> ELSE Append(Segs(tree[n].parent), tree[n].name)

RECURSIVE SortNames(_)
SortNames(S) ==
    IF S = {} THEN <<>>
    ELSE LET m == CHOOSE x \in S : \A y \in S \ {x} : StrLess(x, y)
         IN  <<m>> \o SortNames(S \ {m})

\* the names in a directory, from the last to the first
readDirNamesReversed(segs) ==
    LET names == SortNames({tree[i].name :
                     i \in {j \in DOMAIN tree : tree[j].parent = Resolve(segs)}})
    IN  [i \in DOMAIN names |-> names[Len(names) + 1 - i]]

\* readDirNames: the names in a directory, sorted
readDirNames(segs) ==
    SortNames({tree[i].name : i \in {j \in DOMAIN tree : tree[j].parent = Resolve(segs)}})

\* the bytes of a regular file (each file has its own), and its stat size
Content(n) == IF n # NoNode /\ Kind(n) = "regular" THEN <<n>> ELSE <<>>
Size(n) == Len(Content(n))

\* the working directory, which is the directory deployed
Volume == IF hostSep = "\\" THEN << "C", ":" >> ELSE <<>>
Cwd == Volume \o <<hostSep>> \o << "w" >> \o <<hostSep>> \o rootName

\* the path filepath.Walk hands to the callback: Join(dir, names...)
PathOf(dir, segs) == Join(<<dir>> \o segs)

Dot == << "." >>

\* filepath.Rel(base, targ) for a target that is base or lies below it
Rel(base, targ) ==
    IF targ = base THEN Dot ELSE SubSeq(targ, Len(base) + 2, Len(targ))

\* an exclusion test that compares the extension without lower-casing it
shouldExcludeCaseSensitive(relPath) ==
    LET baseName == Base(relPath)
        ext == Ext(relPath)
    IN  \/ \E i \in DOMAIN excludedPaths :
              \/ baseName = excludedPaths[i]
              \/ HasPrefix(relPath, excludedPaths[i] \o <<hostSep>>)
        \/ \E i \in DOMAIN excludedExtensions : ext = excludedExtensions[i]

\* shouldExclude(relPath, info)
shouldExclude(relPath) ==
    LET baseName == Base(relPath)
        ext == ToLower(Ext(relPath))
    IN  \/ \E i \in DOMAIN excludedPaths :
              \/ baseName = excludedPaths[i]
              \/ HasPrefix(relPath, excludedPaths[i] \o <<hostSep>>)
        \/ \E i \in DOMAIN excludedExtensions : ext = excludedExtensions[i]

(***************************************************************************)
(* Values.                                                                 *)
(***************************************************************************)
MaxArchiveSize == 50 * 1024 * 1024
MegaByte == 1024 * 1024

\* compressed lengths the gzip stream may end with (it depends on the file
\* contents, which the model does not fix)
ArchiveLens == {100, MaxArchiveSize, MaxArchiveSize + 1}

NoArchive == [isNil |-> TRUE, entries |-> <<>>, len |-> 0]
NoErr == [kind |-> "nil", cause |-> "", mb |-> 0, status |-> 0, msg |-> <<>>]
Err(k, c) == [NoErr EXCEPT !.kind = k, !.cause = c]
NewWriter == [entries |-> <<>>, short |-> FALSE]

\* a pointer is a sequence of length 0 (nil) or 1
Return(r, e) == [resp |-> r, err |-> e]

Url == << "u" >>
UrlBad == << "u", "%" >>
Token == << "t" >>
EnvA1 == << "A", "=", "1" >>
EnvA2 == << "A", "=", "2" >>
EnvB1 == << "B", "=", "1" >>
EnvNoEq == << "A" >>
EnvNoKey == << "=", "1" >>
EnvNoValue == << "A", "=" >>
EnvTwoEq == << "A", "=", "1", "=", "2" >>
EnvQuote == << "B", "=", "\"" >>
Cpu == << "5", "0", "0", "m" >>
Mem == << "5", "1", "2", "M", "i" >>
Port == << "0" >>

\* the options Run is given in the pipeline specification
RunOptions ==
    { [APIURL |-> Url, APIToken |-> Token, Path |-> <<>>, Force |-> FALSE,
       Env |-> <<>>, CPU |-> <<>>, Memory |-> <<>>, Port |-> <<>>],
      [APIURL |-> Url, APIToken |-> Token, Path |-> Dot, Force |-> TRUE,
       Env |-> <<EnvA1, EnvB1, EnvA2>>, CPU |-> Cpu, Memory |-> Mem, Port |-> Port] }

\* the elements of a host path, split at the host's separators
RECURSIVE SplitAt(_)
SplitAt(p) ==
    LET seps == {i \in DOMAIN p : IsPathSeparator(p[i])}
    IN  IF seps = {} THEN << p >>
        ELSE << SubSeq(p, 1, Min(seps) - 1) >> \o SplitAt(SubSeq(p, Min(seps) + 1, Len(p)))

\* filepath.VolumeName and filepath.IsAbs
VolumeName(p) == IF Volume # <<>> /\ HasPrefix(p, Volume) THEN Volume ELSE <<>>
IsAbs(p) ==
    LET rest == SubSeq(p, Len(VolumeName(p)) + 1, Len(p))
    IN  /\ hostSep = "\\" => VolumeName(p) # <<>>
        /\ rest # <<>> /\ IsPathSeparator(rest[1])

DotDot == << ".", "." >>

\* filepath.Clean on path elements: empty and "." elements are dropped,
\* ".." removes the element before it (at the root it is dropped, at the
\* start of a relative path it is kept)
RECURSIVE CleanSegs(_, _, _)
CleanSegs(segs, out, rooted) ==
    IF segs = <<>> THEN out
    ELSE LET x == Head(segs)
         IN  IF x = <<>> \/ x = Dot THEN CleanSegs(Tail(segs), out, rooted)
             ELSE IF x = DotDot THEN
                 (IF out # <<>> /\ out[Len(out)] # DotDot
                    THEN CleanSegs(Tail(segs), SubSeq(out, 1, Len(out) - 1), rooted)
                  ELSE IF rooted THEN CleanSegs(Tail(segs), out, rooted)
                  ELSE CleanSegs(Tail(segs), Append(out, x), rooted))
             ELSE CleanSegs(Tail(segs), Append(out, x), rooted)

\* filepath.Clean: the shortest equivalent path, with host separators
Clean(p) ==
    LET vol == VolumeName(p)
        rest == SubSeq(p, Len(vol) + 1, Len(p))
        rooted == rest # <<>> /\ IsPathSeparator(rest[1])
        segs == CleanSegs(SplitAt(rest), <<>>, rooted)
    IN  IF rooted THEN vol \o <<hostSep>> \o Join(segs)
        ELSE IF segs = <<>> THEN vol \o Dot
        ELSE vol \o Join(segs)

\* an Abs that joins the working directory and the path without cleaning
AbsJoinOnly(path) == Cwd \o <<hostSep>> \o path

\* filepath.Abs: an absolute path is cleaned, any other is joined to the
\* working directory (filepath.Join cleans its result)
Abs(path) == IF IsAbs(path) THEN Clean(path) ELSE Clean(Cwd \o <<hostSep>> \o path)

AbsPath == Abs(IF opts.Path = <<>> THEN Dot ELSE opts.Path)

(***************************************************************************)
(* createArchive: the callback given to filepath.Walk.                     *)
(***************************************************************************)
IsDir(kind) == kind = "dir"
\* a mode test that takes a symbolic link for a regular file
IsRegularOrLink(kind) == kind \in {"regular", "symlink"}

IsRegular(kind) == kind = "regular"
IsSymlink(kind) == kind = "symlink"

\* tar.FileInfoHeader: sockets are refused; the size is set for regular
\* files only; the link name is the second argument, here ""
HeaderFails(kind) == kind = "socket"
FileInfoHeader(n) ==
    [name |-> NodeName(n),
     typeflag |-> Kind(n),
     size |-> IF IsRegular(Kind(n)) THEN Size(n) ELSE 0,
     linkname |-> <<>>,
     data |-> <<>>]

\* os.Readlink
Readlink(n) == tree[n].link

Faults == {"none", "lstat", "readdir", "readlink", "open", "copy", "short"}

CbRet(r, w, o) == [ret |-> r, cause |-> "", tw |-> w, opened |-> o]
\* a callback that goes on after a failure
CbErrSwallowed(c, w, o) == CbRet("nil", w, o)

CbErr(c, w, o) == [ret |-> "err", cause |-> c, tw |-> w, opened |-> o]

\* a callback that never takes a path for the root
IsRootNever(relPath) == FALSE

\* "Skip root directory"
IsRoot(relPath) == relPath = Dot

\* a callback that answers SkipDir for an excluded file as well
SkipRetAlways(kind) == "SkipDir"

\* what the callback returns for an excluded path
SkipRet(kind) == IF IsDir(kind) THEN "SkipDir" ELSE "nil"

\* One call of the callback for the path dir/segs, node n (lstat), with the
\* system call named by fault failing ("short": the file shrank after stat).
walkFn(dir, segs, n, fault) ==
    LET path == PathOf(dir, segs)
        relPath == Rel(dir, path)
    IN
    IF fault \in {"lstat", "readdir"} THEN CbErr(fault, tw, opened)
    ELSE IF IsRoot(relPath) THEN CbRet("nil", tw, opened)
    ELSE IF shouldExclude(relPath) THEN CbRet(SkipRet(Kind(n)), tw, opened)
    ELSE IF HeaderFails(Kind(n)) THEN CbErr("header", tw, opened)
    ELSE IF IsSymlink(Kind(n)) /\ fault = "readlink" THEN CbErr("readlink", tw, opened)
    ELSE IF tw.short THEN CbErr("writeheader", tw, opened)
    ELSE
        LET h0 == [FileInfoHeader(n) EXCEPT !.name = relPath]
            header == IF IsSymlink(Kind(n))
                        THEN [h0 EXCEPT !.linkname = Readlink(n)] ELSE h0
            tw1 == [tw EXCEPT !.entries = Append(@, header)]
            k == Len(tw1.entries)
        IN
        IF ~IsRegular(Kind(n)) THEN CbRet("nil", tw1, opened)
        ELSE IF fault = "open" THEN CbErr("open", tw1, opened)
        ELSE
            LET o1 == opened \cup {path}
                bytes == Content(Resolve(segs))
            IN
            IF fault = "copy" THEN CbErr("copy", tw1, o1)
            ELSE IF fault = "short" THEN
                CbRet("nil", [tw1 EXCEPT !.short = TRUE], o1)
            ELSE CbRet("nil", [tw1 EXCEPT !.entries[k].data = bytes], o1)

\* the faults that can happen at a node: a directory is read, a link is
\* read, a regular file is opened and copied
FaultApplies(n, fault) ==
    \/ fault \in {"none", "lstat"}
    \/ fault = "readdir" /\ IsDir(Kind(n))
    \/ fault = "readlink" /\ IsSymlink(Kind(n))
    \/ fault \in {"open", "copy", "short"} /\ IsRegular(Kind(n))

(***************************************************************************)
(* envPairsToJSON and the multipart body.                                  *)
(***************************************************************************)
\* the index of the last "="
IndexEqLast(p) ==
    LET hits == {i \in DOMAIN p : p[i] = "="}
    IN  IF hits = {} THEN 0 ELSE Max(hits)

\* strings.Index(p, "="), counted from 1; 0 when "=" does not occur
IndexEq(p) ==
    LET hits == {i \in DOMAIN p : p[i] = "="}
    IN  IF hits = {} THEN 0 ELSE Min(hits)

\* a map in which the first occurrence of a key is kept
RECURSIVE envMapFirstWins(_)
envMapFirstWins(pairs) ==
    IF pairs = <<>> THEN <<>>
    ELSE LET m == envMapFirstWins(SubSeq(pairs, 1, Len(pairs) - 1))
             p == pairs[Len(pairs)]
             idx == IndexEq(p)
         IN  IF idx <= 1 \/ SubSeq(p, 1, idx - 1) \in DOMAIN m THEN m
             ELSE LET key == SubSeq(p, 1, idx - 1)
                      val == SubSeq(p, idx + 1, Len(p))
                  IN  [k \in (DOMAIN m) \cup {key} |-> IF k = key THEN val ELSE m[k]]

\* the map envPairsToJSON fills, pair by pair in input order
RECURSIVE envMap(_)
envMap(pairs) ==
    IF pairs = <<>> THEN <<>>
    ELSE LET m == envMap(SubSeq(pairs, 1, Len(pairs) - 1))
             p == pairs[Len(pairs)]
             idx == IndexEq(p)
         IN  IF idx <= 1 THEN m
             ELSE LET key == SubSeq(p, 1, idx - 1)
                      val == SubSeq(p, idx + 1, Len(p))
                  IN  [k \in (DOMAIN m) \cup {key} |-> IF k = key THEN val ELSE m[k]]

\* encoding/json: a string literal, with quote and backslash escaped
RECURSIVE jsonEscape(_)
jsonEscape(str) ==
    IF str = <<>> THEN <<>>
    ELSE (IF Head(str) \in {"\"", "\\"} THEN << "\\", Head(str) >> ELSE << Head(str) >>)
         \o jsonEscape(Tail(str))

jsonString(str) == << "\"" >> \o jsonEscape(str) \o << "\"" >>

RECURSIVE jsonMembers(_, _)
jsonMembers(m, keys) ==
    IF keys = <<>> THEN <<>>
    ELSE jsonString(Head(keys)) \o << ":" >> \o jsonString(m[Head(keys)])
         \o (IF Len(keys) > 1 THEN << "," >> ELSE <<>>)
         \o jsonMembers(m, Tail(keys))

\* json.Marshal of a map[string]string: one object, keys sorted
jsonMarshal(m) == << "{" >> \o jsonMembers(m, SortNames(DOMAIN m)) \o << "}" >>

envPairsToJSON(pairs) ==
    IF Len(pairs) = 0 THEN <<>>
    ELSE LET m == envMap(pairs)
         IN  IF DOMAIN m = {} THEN <<>> ELSE jsonMarshal(m)

True == << "t", "r", "u", "e" >>

FilePart(a) == [name |-> "archive", filename |-> "app.tar.gz", text |-> <<>>, file |-> <<a>>]
Field(nm, v) == [name |-> nm, filename |-> "", text |-> v, file |-> <<>>]

\* a form that writes every field, present or not
FieldAlways(cond, nm, v) == << Field(nm, v) >>

\* writer.WriteField when the condition holds
FieldIf(cond, nm, v) == IF cond THEN << Field(nm, v) >> ELSE <<>>

\* the parts upload writes, in order
formParts(c) ==
    << FilePart(c.archive) >>
    \o FieldIf(c.force, "force", True)
    \o FieldIf(c.appName # <<>>, "app_name", c.appName)
    \o FieldIf(envPairsToJSON(c.envPairs) # <<>>, "env_vars", envPairsToJSON(c.envPairs))
    \o FieldIf(c.cpu # <<>>, "cpu", c.cpu)
    \o FieldIf(c.memory # <<>>, "memory", c.memory)
    \o FieldIf(c.port # <<>>, "port", c.port)

\* strings.TrimSuffix(apiURL, "/") + "/deployments"
TrimSlash(u) == IF u # <<>> /\ u[Len(u)] = "/" THEN SubSeq(u, 1, Len(u) - 1) ELSE u
deployURL(apiURL) == TrimSlash(apiURL) \o << "/", "deployments" >>

\* url.Parse, as far as it can fail here: a "%" must begin an escape of
\* two hexadecimal digits
HexDigits ==
    {"0", "1", "2", "3", "4", "5", "6", "7", "8", "9",
     "a", "b", "c", "d", "e", "f", "A", "B", "C", "D", "E", "F"}
UrlParses(u) ==
    \A i \in DOMAIN u :
        u[i] = "%" => i + 2 <= Len(u) /\ u[i + 1] \in HexDigits /\ u[i + 2] \in HexDigits

(***************************************************************************)
(* Responses of the service and their decoding.                            *)
(***************************************************************************)
StatusOK == 200
StatusCreated == 201
StatusCodes == {StatusOK, StatusCreated, 202, 422, 500}

\* A JSON value.  Texts are sequences of tokens; the members of an object
\* and the items of an array are kept in the order sent.
JStr(str) == [t |-> "str", s |-> str, n |-> 0, m |-> <<>>]
JNum(num) == [t |-> "num", s |-> <<>>, n |-> num, m |-> <<>>]
JNull == [t |-> "null", s |-> <<>>, n |-> 0, m |-> <<>>]
JObj(members) == [t |-> "obj", s |-> <<>>, n |-> 0, m |-> members]
JArr(items) == [t |-> "arr", s |-> <<>>, n |-> 0, m |-> items]
Member(key, val) == [k |-> key, v |-> val]

\* the bodies of the specification's scenarios, and variations of them
JDeployment1 ==
    JObj(<< Member("id", JStr(<< "d1" >>)),
            Member("alias", JStr(<< "app1" >>)),
            Member("url", JStr(<< "https://app1.example" >>)),
            Member("status", JStr(<< "building" >>)) >>)
JHealth1 ==
    JObj(<< Member("status", JStr(<< "healthy" >>)),
            Member("checked_at", JStr(<< "T1" >>)),
            Member("response_time_ms", JNum(12)) >>)
JDetail1 ==
    JObj(<< Member("field", JStr(<< "port" >>)),
            Member("error", JStr(<< "out of range" >>)) >>)
JDetail2 ==
    JObj(<< Member("field", JStr(<< "cpu" >>)),
            Member("error", JStr(<< "bad unit" >>)),
            Member("suggestion", JStr(<< "use 500m" >>)) >>)
JError(details) ==
    JObj(<< Member("code", JStr(<< "VALIDATION_FAILED" >>)),
            Member("message", JStr(<< "invalid port" >>)),
            Member("details", JArr(details)) >>)

\* A response body: the text as sent, whether it is JSON, and its value.
BodyOf(text, val) == [json |-> TRUE, raw |-> text, val |-> val]

BodyCreated ==
    BodyOf(<< "created-json" >>,
           JObj(<< Member("status", JStr(<< "created" >>)),
                   Member("deployment", JDeployment1) >>))
BodyHealthy ==
    BodyOf(<< "healthy-json" >>,
           JObj(<< Member("status", JStr(<< "ok" >>)),
                   Member("deployment",
                          JObj(JDeployment1.m \o << Member("health_check", JHealth1) >>)) >>))
BodyBadHealth ==
    BodyOf(<< "bad-health-json" >>,
           JObj(<< Member("status", JStr(<< "ok" >>)),
                   Member("deployment",
                          JObj(JDeployment1.m
                               \o << Member("health_check", JStr(<< "down" >>)) >>)) >>))
BodyErrorOne ==
    BodyOf(<< "error-one-json" >>,
           JObj(<< Member("status", JStr(<< "error" >>)),
                   Member("error", JError(<< JDetail1 >>)) >>))
BodyError ==
    BodyOf(<< "error-json" >>,
           JObj(<< Member("status", JStr(<< "error" >>)),
                   Member("error", JError(<< JDetail1, JDetail2 >>)) >>))
BodyEmptyObject == BodyOf(<< "{}" >>, JObj(<<>>))
BodyArray == BodyOf(<< "[]" >>, JArr(<<>>))
BodyHtml == [json |-> FALSE, raw |-> << "<html>" >>, val |-> JNull]

Bodies ==
    {BodyCreated, BodyHealthy, BodyBadHealth, BodyErrorOne, BodyError,
     BodyEmptyObject, BodyArray, BodyHtml}
Responses == {[status |-> st, body |-> b] : st \in StatusCodes, b \in Bodies}

\* responses the service gives in the pipeline specification
RunResponses ==
    { [status |-> StatusCreated, body |-> BodyCreated],
      [status |-> StatusOK, body |-> BodyHtml],
      [status |-> 422, body |-> BodyError] }

(***************************************************************************)
(* encoding/json: Unmarshal into the structs of the package.  A member     *)
(* that is absent or null leaves the zero value, a member the struct does  *)
(* not name is skipped, of two members with one key the later one stays,   *)
(* and a value of the wrong JSON type is an error.                         *)
(***************************************************************************)
\* the value decoded into the field tagged key
jsonGet(v, key) ==
    IF v.t # "obj" THEN JNull
    ELSE LET hits == {i \in DOMAIN v.m : v.m[i].k = key}
         IN  IF hits = {} THEN JNull ELSE v.m[Max(hits)].v

strOk(v) == v.t \in {"str", "null"}
strVal(v) == IF v.t = "str" THEN v.s ELSE <<>>
intOk(v) == v.t \in {"num", "null"}
intVal(v) == IF v.t = "num" THEN v.n ELSE 0
objOk(v) == v.t \in {"obj", "null"}
arrOk(v) == v.t \in {"arr", "null"}

\* a HealthCheck whose latency field carries the tag "response_time"
decodeHealthCheckTagTypo(v) ==
    [Status |-> strVal(jsonGet(v, "status")),
     CheckedAt |-> strVal(jsonGet(v, "checked_at")),
     ResponseTimeMs |-> intVal(jsonGet(v, "response_time"))]

\* HealthCheck
decodeHealthCheck(v) ==
    [Status |-> strVal(jsonGet(v, "status")),
     CheckedAt |-> strVal(jsonGet(v, "checked_at")),
     ResponseTimeMs |-> intVal(jsonGet(v, "response_time_ms"))]
healthCheckOk(v) ==
    /\ objOk(v)
    /\ strOk(jsonGet(v, "status"))
    /\ strOk(jsonGet(v, "checked_at"))
    /\ intOk(jsonGet(v, "response_time_ms"))

\* Deployment; HealthCheck is a pointer: nil unless an object was sent
decodeDeployment(v) ==
    [ID |-> strVal(jsonGet(v, "id")),
     Alias |-> strVal(jsonGet(v, "alias")),
     URL |-> strVal(jsonGet(v, "url")),
     Status |-> strVal(jsonGet(v, "status")),
     ContainerID |-> strVal(jsonGet(v, "container_id")),
     ImageID |-> strVal(jsonGet(v, "image_id")),
     CreatedAt |-> strVal(jsonGet(v, "created_at")),
     DeployedAt |-> strVal(jsonGet(v, "deployed_at")),
     HealthCheck |-> IF jsonGet(v, "health_check").t = "obj"
                       THEN << decodeHealthCheck(jsonGet(v, "health_check")) >>
                       ELSE <<>>]
deploymentOk(v) ==
    /\ objOk(v)
    /\ \A key \in {"id", "alias", "url", "status", "container_id", "image_id",
                   "created_at", "deployed_at"} : strOk(jsonGet(v, key))
    /\ healthCheckOk(jsonGet(v, "health_check"))

\* DeployResponse
decodeDeploy(b) ==
    [Status |-> strVal(jsonGet(b.val, "status")),
     Deployment |-> decodeDeployment(jsonGet(b.val, "deployment"))]
deployOk(b) ==
    /\ b.json
    /\ objOk(b.val)
    /\ strOk(jsonGet(b.val, "status"))
    /\ deploymentOk(jsonGet(b.val, "deployment"))

\* ValidationError
decodeDetail(v) ==
    [Field |-> strVal(jsonGet(v, "field")),
     Error |-> strVal(jsonGet(v, "error")),
     Suggestion |-> strVal(jsonGet(v, "suggestion"))]
detailOk(v) ==
    /\ objOk(v)
    /\ \A key \in {"field", "error", "suggestion"} : strOk(jsonGet(v, key))

\* ErrorDetail
decodeErrorDetail(v) ==
    LET details == jsonGet(v, "details")
    IN  [Code |-> strVal(jsonGet(v, "code")),
         Message |-> strVal(jsonGet(v, "message")),
         Details |-> IF details.t = "arr"
                       THEN [i \in DOMAIN details.m |-> decodeDetail(details.m[i])]
                       ELSE <<>>,
         RequestID |-> strVal(jsonGet(v, "request_id")),
         Documentation |-> strVal(jsonGet(v, "documentation"))]
errorDetailOk(v) ==
    LET details == jsonGet(v, "details")
    IN  /\ objOk(v)
        /\ \A key \in {"code", "message", "request_id", "documentation"} :
              strOk(jsonGet(v, key))
        /\ arrOk(details)
        /\ details.t = "arr" => \A i \in DOMAIN details.m : detailOk(details.m[i])

\* ErrorResponse
decodeError(b) ==
    [Status |-> strVal(jsonGet(b.val, "status")),
     Error |-> decodeErrorDetail(jsonGet(b.val, "error"))]
errorOk(b) ==
    /\ b.json
    /\ objOk(b.val)
    /\ strOk(jsonGet(b.val, "status"))
    /\ errorDetailOk(jsonGet(b.val, "error"))

\* a rendering that lists the details last first
RECURSIVE formatDetailsReversed(_)
formatDetailsReversed(ds) ==
    IF ds = <<>> THEN <<>>
    ELSE formatDetailsReversed(Tail(ds))
         \o << "\n  - " >> \o Head(ds).Field \o << ": " >> \o Head(ds).Error
         \o (IF Head(ds).Suggestion # <<>>
               THEN << "\n    Suggestion: " >> \o Head(ds).Suggestion ELSE <<>>)

\* formatAPIError: the lines of the validation details
RECURSIVE formatDetails(_)
formatDetails(ds) ==
    IF ds = <<>> THEN <<>>
    ELSE << "\n  - " >> \o Head(ds).Field \o << ": " >> \o Head(ds).Error
         \o (IF Head(ds).Suggestion # <<>>
               THEN << "\n    Suggestion: " >> \o Head(ds).Suggestion ELSE <<>>)
         \o formatDetails(Tail(ds))

formatAPIError(errResp) ==
    errResp.Error.Code \o << ": " >> \o errResp.Error.Message
    \o (IF Len(errResp.Error.Details) > 0
          THEN << "\n\nDetails:" >> \o formatDetails(errResp.Error.Details) ELSE <<>>)

ErrMsg(k, m) == [NoErr EXCEPT !.kind = k, !.msg = m]

\* a test that takes every 2xx status for a success
IsSuccess2xx(status) == status >= 200 /\ status < 300

\* "Handle success": the statuses upload decodes as a DeployResponse
IsSuccess(status) == status = StatusCreated \/ status = StatusOK

\* an upload that returns neither a record nor an error when the body of
\* a success does not parse
interpretNoError(r) ==
    IF IsSuccess(r.status) THEN
        (IF ~deployOk(r.body) THEN Return(<<>>, NoErr)
         ELSE Return(<< decodeDeploy(r.body) >>, NoErr))
    ELSE IF ~errorOk(r.body) THEN
        Return(<<>>, [NoErr EXCEPT !.kind = "API error", !.status = r.status, !.msg = r.body.raw])
    ELSE Return(<<>>, ErrMsg("api", formatAPIError(decodeError(r.body))))

\* upload, after the body was read: the value it returns
interpret(r) ==
    IF IsSuccess(r.status) THEN
        (IF ~deployOk(r.body) THEN Return(<<>>, Err("failed to parse response", ""))
         ELSE Return(<< decodeDeploy(r.body) >>, NoErr))
    ELSE IF ~errorOk(r.body) THEN
        Return(<<>>, [NoErr EXCEPT !.kind = "API error", !.status = r.status, !.msg = r.body.raw])
    ELSE Return(<<>>, ErrMsg("api", formatAPIError(decodeError(r.body))))

(***************************************************************************)
(* The commands of the CLI (package cmd): the command line a handler is    *)
(* run with.  Flags carry the names of the variables they are parsed into. *)
(***************************************************************************)
MaxFrames == 2   \* frames the spinner writes

CommandNames ==
    {"deploy", "apps list", "apps delete", "apps update",
     "db list", "db create", "db delete", "db restore", "db dump",
     "secrets list", "secrets set", "secrets get", "secrets delete"}

\* the two definitions of runDeploy in the sources
Versions == {"old", "new"}

\* where the value of secrets set comes from
SecretInputs == {"argument", "empty argument", "stdin", "empty stdin", "stdin error"}

DefaultCmd(name) ==
    [name |-> name, version |-> "new", environ |-> << Token >>, dotenv |-> <<>>,
     args |-> <<>>,
     yes |-> FALSE, quiet |-> FALSE, input |-> "argument",
     force |-> FALSE, env |-> <<>>, cpu |-> <<>>, memory |-> <<>>, port |-> <<>>,
     portFlag |-> <<>>, replicasFlag |-> <<>>, urlEnv |-> <<>>]

NoCmd == DefaultCmd("none")

\* DIBBLA_API_TOKEN in the environment of the process and in the .env file
\* of the working directory: a sequence of no value (not set, no file or no
\* such line) or of one value
Tokens ==
    {[environ |-> e, dotenv |-> d] :
        e \in {<<>>, << <<>> >>, << Token >>}, d \in {<<>>, << Token >>}}

\* what godotenv.Load leaves variables that are set already
LoadEnvOverload(environ, dotenv) == IF dotenv # <<>> THEN dotenv ELSE environ

\* godotenv.Load: a variable of the .env file is set unless the environment
\* has it already (an empty value counts as set)
LoadEnv(environ, dotenv) == IF environ # <<>> THEN environ ELSE dotenv

\* os.Getenv
Getenv(environ) == IF environ = <<>> THEN <<>> ELSE environ[1]

\* DIBBLA_API_URL: not set, or set to the default URL with a slash after it
UrlEnvs == {<<>>, << Url \o << "/" >> >>}
DefaultAPIURL == Url

\* config.Load
Load(c) ==
    [APIURL |-> IF Getenv(c.urlEnv) # <<>> THEN Getenv(c.urlEnv) ELSE DefaultAPIURL,
     APIToken |-> Getenv(LoadEnv(c.environ, c.dotenv))]

\* An int of the 64-bit builds is held as q * 2^16 + r with 0 <= r < 2^16.
Wide(q, r) == [q |-> q, r |-> r]
Small(n) == Wide(IF n < 0 THEN 0 - 1 ELSE 0, IF n < 0 THEN 65536 + n ELSE n)
IsNegative(v) == v.q < 0

\* int32(v): the low 32 bits, read as a signed number
Int32(v) ==
    LET q == v.q % 65536
    IN  Wide(IF q >= 32768 THEN q - 65536 ELSE q, v.r)

\* --port and --replicas as given on the command line: not given, or the
\* number given
UpdatePorts == {<<>>, << 0 - 5 >>, << 0 >>, << 80 >>, << 65536 >>}
UpdateReplicas ==
    {<<>>, << Small(0 - 2) >>, << Small(0) >>, << Small(2) >>, << Wide(32768, 0) >>,
     << Wide(65536, 1) >>}

\* flags.IntVar: the variable holds the default until the flag is given
IntVar(flag, default) == IF flag = <<>> THEN default ELSE flag[1]
updatePort(c) == IntVar(c.portFlag, 0 - 1)
updateReplicas(c) == IntVar(c.replicasFlag, Small(0 - 1))

DeployCmds ==
    {[DefaultCmd("deploy") EXCEPT !.version = "old", !.environ = t.environ,
        !.dotenv = t.dotenv, !.args = a, !.force = f] :
        t \in Tokens, a \in {<<>>, << Dot >>}, f \in BOOLEAN}
    \cup
    {[DefaultCmd("deploy") EXCEPT !.environ = t.environ,
        !.dotenv = t.dotenv, !.args = a, !.force = o.Force,
                                  !.env = o.Env, !.cpu = o.CPU, !.memory = o.Memory,
                                  !.port = o.Port] :
        t \in Tokens, a \in {<<>>, << Dot >>}, o \in RunOptions}

DeleteCmds ==
    {[DefaultCmd(n) EXCEPT !.environ = t.environ,
        !.dotenv = t.dotenv, !.args = << NameApp >>, !.yes = y, !.quiet = q] :
        n \in {"apps delete", "db delete", "secrets delete"}, t \in Tokens,
        y \in BOOLEAN, q \in BOOLEAN}

UpdateCmds ==
    {[DefaultCmd("apps update") EXCEPT !.environ = t.environ,
        !.dotenv = t.dotenv, !.args = << NameApp >>, !.env = e,
                                       !.cpu = c, !.portFlag = p, !.replicasFlag = r] :
        t \in Tokens, e \in {<<>>, << EnvNoEq >>, << EnvA1 >>}, c \in {<<>>, Cpu},
        p \in UpdatePorts, r \in UpdateReplicas}

OtherCmds ==
    {[DefaultCmd(n) EXCEPT !.environ = t.environ,
        !.dotenv = t.dotenv, !.args = a, !.quiet = q, !.input = i] :
        n \in {"apps list", "db list", "db create", "db restore", "db dump",
               "secrets list", "secrets set", "secrets get"},
        t \in Tokens, a \in {<<>>, << NameApp >>}, q \in BOOLEAN, i \in SecretInputs}

\* the command lines cobra hands to a handler: the arguments it requires
\* are there, and flags of other commands are not
CommandLines ==
    DeployCmds \cup UpdateCmds
    \cup {c \in DeleteCmds : c.name # "db delete" => ~c.quiet}
    \cup {c \in OtherCmds :
            /\ c.name # "db create" => c.args # <<>>
            /\ c.name # "db list" => ~c.quiet
            /\ c.name # "secrets set" => c.input = "argument"}

Invocations == {[c EXCEPT !.urlEnv = u] : c \in CommandLines, u \in UrlEnvs}

\* the output file of db dump before os.Create
NoFile == [state |-> "absent", data |-> <<>>]

CmdIdle ==
    /\ cmd = NoCmd
    /\ cpc = "none"
    /\ exit = <<>>
    /\ done = "nil"
    /\ spinner = "none"
    /\ frames = 0
    /\ stdout = <<>>
    /\ answer = <<>>
    /\ apiCalls = <<>>
    /\ apiResult = "none"
    /\ apiCause = ""
    /\ outFile = NoFile

(***************************************************************************)
(* Run, step by step.                                                      *)
(***************************************************************************)
Init ==
    /\ hostSep \in HostSeps
    /\ rootName \in RootNames
    /\ tree \in Trees
    /\ opts \in RunOptions
    /\ pc = "start"
    /\ todo = <<>>
    /\ tw = NewWriter
    /\ archive = NoArchive
    /\ archErr = NoErr
    /\ stages = <<>>
    /\ opened = {}
    /\ call = <<>>
    /\ body = <<>>
    /\ requests = <<>>
    /\ response = <<>>
    /\ result = <<>>
    /\ CmdIdle

\* Run returns (resp, err)
Finish(r) == pc' = "done" /\ result' = << r >>

\* Run: the path is made absolute (Getwd may fail), then createArchive
\* starts walking at the root
RunStart ==
    /\ pc = "start"
    /\ \E absOk \in BOOLEAN :
        IF absOk
        THEN /\ pc' = "walk"
             /\ todo' = << <<>> >>
             /\ stages' = Append(stages, "archive")
             /\ UNCHANGED result
        ELSE /\ Finish(Return(<<>>, Err("invalid path", "getwd")))
             /\ UNCHANGED <<todo, stages>>
    /\ UNCHANGED <<hostSep, rootName, tree, opts, tw, archive, archErr, opened, call,
                   body, requests, response>>
    /\ UNCHANGED cmdVars

\* filepath.Walk visits the next path: lstat, for a directory the sorted
\* names in it, the callback, and then the descent unless SkipDir
WalkStep ==
    /\ pc = "walk"
    /\ todo # <<>>
    /\ \E fault \in Faults :
        LET segs == Head(todo)
            n == Lookup(segs)
            r == walkFn(AbsPath, segs, n, fault)
            below == IF IsDir(Kind(n)) /\ r.ret = "nil"
                       THEN LET names == readDirNames(segs)
                            IN  [i \in DOMAIN names |-> Append(segs, names[i])]
                       ELSE <<>>
            \* SkipDir returned for a file skips the rest of its directory
            InSameDir(q) == /\ Len(q) = Len(segs)
                            /\ SubSeq(q, 1, Len(q) - 1) = SubSeq(segs, 1, Len(segs) - 1)
            rest == IF r.ret = "SkipDir" /\ ~IsDir(Kind(n))
                      THEN SelectSeq(Tail(todo), LAMBDA q : ~InSameDir(q))
                      ELSE Tail(todo)
        IN  /\ FaultApplies(n, fault)
            /\ tw' = r.tw
            /\ opened' = r.opened
            /\ IF r.ret = "err"
               THEN /\ archErr' = Err("walk", r.cause)
                    /\ pc' = "built"
                    /\ UNCHANGED todo
               ELSE /\ todo' = below \o rest
                    /\ UNCHANGED <<pc, archErr>>
    /\ UNCHANGED <<hostSep, rootName, tree, opts, archive, stages, call, body,
                   requests, response, result>>
    /\ UNCHANGED cmdVars

\* createArchive after the walk: tw.Close (fails when a file was written
\* short), gzw.Close, and the bytes of the buffer
CloseArchive ==
    /\ pc = "walk"
    /\ todo = <<>>
    /\ pc' = "built"
    /\ IF tw.short
       THEN /\ archErr' = Err("close", "missed writing")
            /\ UNCHANGED archive
       ELSE /\ \E n \in ArchiveLens :
                 archive' = [isNil |-> FALSE, entries |-> tw.entries, len |-> n]
            /\ UNCHANGED archErr
    /\ UNCHANGED <<hostSep, rootName, tree, opts, todo, tw, stages, opened,
                   call, body, requests, response, result>>
    /\ UNCHANGED cmdVars

\* a Run that does not look at the error of createArchive
IsErrNever(e) == FALSE

IsErr(e) == e.kind # "nil"

\* Run: the error of createArchive is checked
CheckArchive ==
    /\ pc = "built"
    /\ IF IsErr(archErr)
       THEN Finish(Return(<<>>, Err("failed to create archive", archErr.cause)))
       ELSE pc' = "size" /\ UNCHANGED result
    /\ UNCHANGED <<hostSep, rootName, tree, opts, todo, tw, archive, archErr, stages,
                   opened, call, body, requests, response>>
    /\ UNCHANGED cmdVars

\* a size check that also rejects an archive of exactly the limit
OverLimitInclusive(len) == len >= MaxArchiveSize

OverLimit(len) == len > MaxArchiveSize

\* Run: the size check
SizeCheck ==
    /\ pc = "size"
    /\ stages' = Append(stages, "size")
    /\ IF OverLimit(archive.len)
       THEN Finish(Return(<<>>, [Err("size", "") EXCEPT !.mb = archive.len \div MegaByte]))
       ELSE pc' = "call" /\ UNCHANGED result
    /\ UNCHANGED <<hostSep, rootName, tree, opts, todo, tw, archive, archErr, opened,
                   call, body, requests, response>>
    /\ UNCHANGED cmdVars

\* Run: the app name is the base name of the absolute path; upload is called
CallUpload ==
    /\ pc = "call"
    /\ stages' = Append(stages, "upload")
    /\ call' = << [apiURL |-> opts.APIURL, apiToken |-> opts.APIToken,
                   archive |-> archive, appName |-> Base(AbsPath),
                   force |-> opts.Force, envPairs |-> opts.Env, cpu |-> opts.CPU,
                   memory |-> opts.Memory, port |-> opts.Port] >>
    /\ pc' = "upload"
    /\ UNCHANGED <<hostSep, rootName, tree, opts, todo, tw, archive, archErr, opened,
                   body, requests, response, result>>
    /\ UNCHANGED cmdVars

\* upload: the multipart form is written and closed
BuildBody ==
    /\ pc = "upload"
    /\ body' = formParts(call[1])
    /\ pc' = "send"
    /\ UNCHANGED <<hostSep, rootName, tree, opts, todo, tw, archive, archErr, stages,
                   opened, call, requests, response, result>>
    /\ UNCHANGED cmdVars

\* an upload that sends the request again after a transport failure
TransportFailedRetry == pc' = "send" /\ UNCHANGED result

\* "request failed": upload returns the error of client.Do
TransportFailed == Finish(Return(<<>>, Err("request failed", "transport")))

\* upload: the request is made (the URL may not parse) and sent once; the
\* transport fails or a response arrives
Send(answers) ==
    /\ pc = "send"
    /\ IF ~UrlParses(deployURL(call[1].apiURL))
       THEN /\ Finish(Return(<<>>, Err("failed to create request", "parse")))
            /\ UNCHANGED <<requests, response>>
       ELSE /\ requests' = Append(requests,
                  [method |-> "POST", url |-> deployURL(call[1].apiURL),
                   contentType |-> "multipart/form-data",
                   authorization |-> << "Bearer " >> \o call[1].apiToken,
                   body |-> body])
            /\ \/ /\ TransportFailed
                  /\ UNCHANGED response
               \/ /\ \E r \in answers : response' = << r >>
                  /\ pc' = "recv"
                  /\ UNCHANGED result
    /\ UNCHANGED <<hostSep, rootName, tree, opts, todo, tw, archive, archErr, stages,
                   opened, call, body>>
    /\ UNCHANGED cmdVars

\* upload: the body is read (the read may fail) and interpreted
Receive ==
    /\ pc = "recv"
    /\ \E readOk \in BOOLEAN :
        IF readOk THEN Finish(interpret(response[1]))
        ELSE Finish(Return(<<>>, Err("failed to read response", "read")))
    /\ UNCHANGED <<hostSep, rootName, tree, opts, todo, tw, archive, archErr, stages,
                   opened, call, body, requests, response>>
    /\ UNCHANGED cmdVars

Next ==
    \/ RunStart
    \/ WalkStep
    \/ CloseArchive
    \/ CheckArchive
    \/ SizeCheck
    \/ CallUpload
    \/ BuildBody
    \/ Send(RunResponses)
    \/ Receive

Spec == Init /\ [][Next]_vars

(***************************************************************************)
(* upload on its own: every combination of arguments it distinguishes and  *)
(* every response.  The state is the one Run is in when it calls upload    *)
(* for an empty directory.                                                 *)
(***************************************************************************)
EnvPairs == {EnvA1, EnvA2, EnvB1, EnvNoEq, EnvNoKey, EnvNoValue, EnvTwoEq, EnvQuote}

RECURSIVE SeqsUpTo(_, _)
SeqsUpTo(S, k) ==
    IF k = 0 THEN {<<>>}
    ELSE LET shorter == SeqsUpTo(S, k - 1)
         IN  shorter \cup {Append(q, x) : q \in {r \in shorter : Len(r) = k - 1}, x \in S}

EmptyArchive == [isNil |-> FALSE, entries |-> <<>>, len |-> 100]

UploadCall(url, app, force, env, cpu, mem, port) ==
    [apiURL |-> url, apiToken |-> Token, archive |-> EmptyArchive, appName |-> app,
     force |-> force, envPairs |-> env, cpu |-> cpu, memory |-> mem, port |-> port]

\* the scalar fields in every combination with few environments, and the
\* environments in every combination with the scalar fields all absent or
\* all present
UploadCalls ==
    {UploadCall(Url, app, f, env, c, m, p) :
        app \in {<<>>, NameApp}, f \in BOOLEAN, env \in {<<>>, <<EnvA1>>, <<EnvNoEq>>},
        c \in {<<>>, Cpu}, m \in {<<>>, Mem}, p \in {<<>>, Port}}
    \cup
    {UploadCall(url, x.app, x.f, env, x.c, x.m, x.p) :
        url \in {Url, Url \o << "/" >>, UrlBad},
        env \in SeqsUpTo(EnvPairs, MaxEnv),
        x \in {[app |-> <<>>, f |-> FALSE, c |-> <<>>, m |-> <<>>, p |-> <<>>],
               [app |-> NameApp, f |-> TRUE, c |-> Cpu, m |-> Mem, p |-> Port]}}

InitUpload ==
    /\ hostSep = "/"
    /\ rootName = NameApp
    /\ tree = <<>>
    /\ \E c \in UploadCalls :
        /\ call = << c >>
        /\ opts = [APIURL |-> c.apiURL, APIToken |-> c.apiToken, Path |-> <<>>,
                   Force |-> c.force, Env |-> c.envPairs, CPU |-> c.cpu,
                   Memory |-> c.memory, Port |-> c.port]
    /\ pc = "upload"
    /\ todo = <<>>
    /\ tw = NewWriter
    /\ archive = EmptyArchive
    /\ archErr = NoErr
    /\ stages = << "archive", "size", "upload" >>
    /\ opened = {}
    /\ body = <<>>
    /\ requests = <<>>
    /\ response = <<>>
    /\ result = <<>>
    /\ CmdIdle

NextUpload ==
    \/ BuildBody
    \/ Send(Responses)
    \/ Receive

SpecUpload == InitUpload /\ [][NextUpload]_vars

(***************************************************************************)
(* Run with the directory named in every form: the ways Path can name the  *)
(* working directory, which is the directory deployed.                     *)
(***************************************************************************)
PathForms ==
    { <<>>,
      Dot,
      Dot \o << "/" >>,
      Cwd,
      Cwd \o <<hostSep>> \o Dot,
      DotDot \o <<hostSep>> \o rootName }

InitPaths ==
    /\ hostSep \in HostSeps
    /\ rootName \in RootNames
    /\ tree \in TreesOf(0) \cup TreesOf(1)
    /\ \E o \in RunOptions, p \in PathForms : opts = [o EXCEPT !.Path = p]
    /\ pc = "start"
    /\ todo = <<>>
    /\ tw = NewWriter
    /\ archive = NoArchive
    /\ archErr = NoErr
    /\ stages = <<>>
    /\ opened = {}
    /\ call = <<>>
    /\ body = <<>>
    /\ requests = <<>>
    /\ response = <<>>
    /\ result = <<>>
    /\ CmdIdle

SpecPaths == InitPaths /\ [][Next]_vars

(***************************************************************************)
(* The command handlers (package cmd), the spinner goroutine they start,   *)
(* and the API clients they call.                                          *)
(***************************************************************************)
\* a check that lets every token pass
HasTokenAlways(token) == TRUE

\* Config.HasToken
HasToken(token) == token # <<>>

IsDeploy(c) == c.name = "deploy"
IsDelete(c) == c.name \in {"apps delete", "db delete", "secrets delete"}

\* the handlers that start a spinner goroutine, and those that close done
HasSpinner(c) ==
    \/ c.name \in {"deploy", "apps delete", "db restore", "db dump"}
    \/ c.name = "db delete" /\ ~c.quiet

\* a close after every call
ClosesDoneAlways(c) == c.name \in CommandNames

\* the handlers that close done after the call: those with a spinner, but
\* not the older runDeploy
ClosesDone(c) == HasSpinner(c) /\ ~(IsDeploy(c) /\ c.version = "old")

\* what a handler checks before it asks for the token: db create needs a
\* name, secrets set a value
PrologueFails(c) ==
    \/ c.name = "db create" /\ c.args = <<>>
    \/ c.name = "secrets set" /\ c.input \notin {"argument", "stdin"}

AfterPrompt(c) == IF HasSpinner(c) THEN "spin" ELSE "call"
AfterToken(c) ==
    IF c.name \in {"deploy", "apps update"} THEN "checks"
    ELSE IF c.name = "db dump" THEN "create"
    ELSE IF IsDelete(c) THEN "confirm"
    ELSE AfterPrompt(c)
AfterCall(c) == IF ClosesDone(c) THEN "returned" ELSE "report"

\* os.Exit(code) after the lines printed
Exit(code, lines) ==
    /\ exit' = << code >>
    /\ cpc' = "exited"
    /\ stdout' = stdout \o lines

\* every handler: its first checks, then the token (requireToken, or the
\* same lines in the handler)
CheckToken ==
    /\ cpc = "start"
    /\ IF PrologueFails(cmd) THEN Exit(1, << "usage error" >>)
       ELSE IF ~HasToken(Load(cmd).APIToken)
       THEN Exit(1, << "token required" >>)
       ELSE /\ cpc' = AfterToken(cmd)
            /\ UNCHANGED <<exit, stdout>>
    /\ UNCHANGED <<cmd, done, spinner, frames, answer, apiCalls, apiResult, apiCause, outFile>>
    /\ UNCHANGED runVars

\* the options runDeploy gives to deploy.Run (the older runDeploy has the
\* force flag only)
deployOptions(c) ==
    [APIURL |-> Load(c).APIURL, APIToken |-> Load(c).APIToken,
     Path |-> IF Len(c.args) > 0 THEN c.args[1] ELSE Dot,
     Force |-> c.force,
     Env |-> IF c.version = "old" THEN <<>> ELSE c.env,
     CPU |-> IF c.version = "old" THEN <<>> ELSE c.cpu,
     Memory |-> IF c.version = "old" THEN <<>> ELSE c.memory,
     Port |-> IF c.version = "old" THEN <<>> ELSE c.port]

\* runDeploy: the path is made absolute and must exist (the older
\* runDeploy wants a docker-compose.yml in it)
DeployChecks ==
    /\ cpc = "checks"
    /\ IsDeploy(cmd)
    /\ \E absOk, exists, compose \in BOOLEAN :
        IF ~absOk THEN Exit(1, << "invalid path" >>) /\ UNCHANGED opts
        ELSE IF ~exists THEN Exit(1, << "directory not found" >>) /\ UNCHANGED opts
        ELSE IF cmd.version = "old" /\ ~compose
        THEN Exit(1, << "docker-compose.yml not found" >>) /\ UNCHANGED opts
        ELSE /\ opts' = deployOptions(cmd)
             /\ cpc' = "spin"
             /\ stdout' = stdout \o << "deploying" >>
             /\ UNCHANGED exit
    /\ UNCHANGED <<cmd, done, spinner, frames, answer, apiCalls, apiResult, apiCause, outFile>>
    /\ UNCHANGED <<hostSep, rootName, tree, pc, todo, tw, archive, archErr, stages,
                   opened, call, body, requests, response, result>>

\* runAppsUpdate: the port range and "at least one update"
PortInRange(port) == port >= 1 /\ port <= 65535
hasUpdate(c) ==
    \/ DOMAIN envMap(c.env) # {}
    \/ ~IsNegative(updateReplicas(c))
    \/ c.cpu # <<>>
    \/ c.memory # <<>>
    \/ PortInRange(updatePort(c))

UpdateChecks ==
    /\ cpc = "checks"
    /\ cmd.name = "apps update"
    /\ IF ~PortInRange(updatePort(cmd)) /\ updatePort(cmd) >= 0
       THEN Exit(1, << "port out of range" >>)
       ELSE IF ~hasUpdate(cmd) THEN Exit(1, << "nothing to update" >>)
       ELSE /\ cpc' = "call"
            /\ stdout' = stdout \o << "updating" >>
            /\ UNCHANGED exit
    /\ UNCHANGED <<cmd, done, spinner, frames, answer, apiCalls, apiResult, apiCause, outFile>>
    /\ UNCHANGED runVars

\* runDbDump: os.Create of the output file
DumpCreate ==
    /\ cpc = "create"
    /\ \E created \in BOOLEAN :
        IF created
        THEN /\ outFile' = [state |-> "open", data |-> <<>>]
             /\ cpc' = "spin"
             /\ UNCHANGED <<exit, stdout>>
        ELSE /\ Exit(1, << "create failed" >>)
             /\ UNCHANGED outFile
    /\ UNCHANGED <<cmd, done, spinner, frames, answer, apiCalls, apiResult, apiCause>>
    /\ UNCHANGED runVars

\* what the user does at the prompt: types y or n, takes the default with
\* Enter, or interrupts it
Answers == {"yes", "no", "enter", "interrupt"}

\* a prompt that takes every answer for a yes
AskConfirmAnyAnswer(a) == TRUE

\* prompt.AskConfirm: the default is yes; when the prompt fails, confirm
\* keeps its zero value
AskConfirm(a) == a \in {"yes", "enter"}

\* the delete handlers: the confirmation, skipped with --yes
Confirm ==
    /\ cpc = "confirm"
    /\ IF cmd.yes
       THEN /\ cpc' = AfterPrompt(cmd)
            /\ UNCHANGED <<answer, exit, stdout>>
       ELSE \E a \in Answers :
            /\ answer' = << a >>
            /\ IF AskConfirm(a)
               THEN /\ cpc' = AfterPrompt(cmd)
                    /\ UNCHANGED <<exit, stdout>>
               ELSE Exit(0, IF cmd.name = "db delete" /\ cmd.quiet
                              THEN <<>> ELSE << "cancelled" >>)
    /\ UNCHANGED <<cmd, done, spinner, frames, apiCalls, apiResult, apiCause, outFile>>
    /\ UNCHANGED runVars

\* done := make(chan struct{}); go func() { ... }()
StartSpinner ==
    /\ cpc = "spin"
    /\ done' = "open"
    /\ spinner' = "select"
    /\ cpc' = "call"
    /\ UNCHANGED <<cmd, exit, frames, stdout, answer, apiCalls, apiResult, apiCause, outFile>>
    /\ UNCHANGED runVars

\* the spinner goroutine: select on done, with a default case
SpinnerSelect ==
    /\ spinner = "select"
    /\ exit = <<>>
    /\ IF done = "closed" THEN spinner' = "erase"
       ELSE frames < MaxFrames /\ spinner' = "print"
    /\ UNCHANGED <<cmd, cpc, exit, done, frames, stdout, answer, apiCalls, apiResult, apiCause,
                   outFile>>
    /\ UNCHANGED runVars

\* the default case: a frame is written, then the goroutine sleeps
SpinnerPrint ==
    /\ spinner = "print"
    /\ exit = <<>>
    /\ stdout' = Append(stdout, "frame")
    /\ frames' = frames + 1
    /\ spinner' = "select"
    /\ UNCHANGED <<cmd, cpc, exit, done, answer, apiCalls, apiResult, apiCause, outFile>>
    /\ UNCHANGED runVars

\* case <-done: the line is cleared and the goroutine returns
SpinnerErase ==
    /\ spinner = "erase"
    /\ exit = <<>>
    /\ stdout' = Append(stdout, "erase")
    /\ spinner' = "stopped"
    /\ UNCHANGED <<cmd, cpc, exit, done, frames, answer, apiCalls, apiResult, apiCause,
                   outFile>>
    /\ UNCHANGED runVars

\* runDeploy calls deploy.Run
DeployCallRun ==
    /\ cpc = "call"
    /\ IsDeploy(cmd)
    /\ pc = "idle"
    /\ pc' = "start"
    /\ cpc' = "running"
    /\ UNCHANGED <<cmd, exit, done, spinner, frames, stdout, answer, apiCalls, apiResult,
                   apiCause,
                   outFile>>
    /\ UNCHANGED <<hostSep, rootName, tree, opts, todo, tw, archive, archErr, stages,
                   opened, call, body, requests, response, result>>

\* deploy.Run has returned to runDeploy
RunReturned ==
    /\ cpc = "running"
    /\ pc = "done"
    /\ apiResult' = IF IsErr(result[1].err) THEN "err" ELSE "ok"
    /\ apiCause' = IF IsErr(result[1].err) THEN result[1].err.kind ELSE ""
    /\ cpc' = AfterCall(cmd)
    /\ UNCHANGED <<cmd, exit, done, spinner, frames, stdout, answer, apiCalls, outFile>>
    /\ UNCHANGED runVars

\* the method and the endpoint path of each client function
ApiOf(name) ==
    CASE name = "apps list" ->
          [method |-> "GET", resource |-> << "/", "deployments" >>]
      [] name = "apps delete" ->
          [method |-> "DELETE", resource |-> << "/", "deployments", "/", "{alias}" >>]
      [] name = "apps update" ->
          [method |-> "PUT", resource |-> << "/", "deployments", "/", "{alias}" >>]
      [] name = "db list" ->
          [method |-> "GET", resource |-> << "/", "databases" >>]
      [] name = "db create" ->
          [method |-> "POST", resource |-> << "/", "databases" >>]
      [] name = "db delete" ->
          [method |-> "DELETE", resource |-> << "/", "databases", "/", "{name}" >>]
      [] name = "db restore" ->
          [method |-> "POST", resource |-> << "/", "databases", "/", "{name}", "/", "restore" >>]
      [] name = "db dump" ->
          [method |-> "GET", resource |-> << "/", "databases", "/", "{name}", "/", "dump" >>]
      [] name = "secrets list" ->
          [method |-> "GET", resource |-> << "/", "secrets" >>]
      [] name = "secrets set" ->
          [method |-> "POST", resource |-> << "/", "secrets" >>]
      [] name = "secrets get" ->
          [method |-> "GET", resource |-> << "/", "secrets", "/", "{name}" >>]
      [] name = "secrets delete" ->
          [method |-> "DELETE", resource |-> << "/", "secrets", "/", "{name}" >>]

\* strings.TrimRight(apiURL, "/")
RECURSIVE TrimRight(_)
TrimRight(u) == IF u # <<>> /\ u[Len(u)] = "/" THEN TrimRight(SubSeq(u, 1, Len(u) - 1)) ELSE u

\* ListApps: fmt.Sprintf("%s/deployments", apiURL)
ListAppsURL(apiURL) == apiURL \o ApiOf("apps list").resource

\* makeAPIURL of the db and the secrets client
makeAPIURL(base, path) == TrimSlash(base) \o path

\* the URL each client function builds
requestURL(name, apiURL) ==
    CASE name = "apps list" -> ListAppsURL(apiURL)
      [] name = "apps delete" -> TrimRight(apiURL) \o ApiOf(name).resource
      [] name = "apps update" -> TrimSlash(apiURL) \o ApiOf(name).resource
      [] OTHER -> makeAPIURL(apiURL, ApiOf(name).resource)

\* the port that goes into the update request
requestPort(c) == IF PortInRange(updatePort(c)) THEN << updatePort(c) >> ELSE <<>>

\* runAppsUpdate: the UpdateDeploymentRequest (a nil pointer is <<>>)
UpdateDeploymentRequest(c) ==
    [EnvironmentVariables |-> envMap(c.env),
     Replicas |-> IF ~IsNegative(updateReplicas(c))
                  THEN << Int32(updateReplicas(c)) >> ELSE <<>>,
     CPU |-> c.cpu, Memory |-> c.memory,
     Port |-> requestPort(c)]

\* the request a handler's client function sends
RequestOf(c) ==
    [method |-> ApiOf(c.name).method,
     resource |-> ApiOf(c.name).resource,
     url |-> requestURL(c.name, Load(c).APIURL),
     body |-> IF c.name = "apps update" THEN << UpdateDeploymentRequest(c) >> ELSE <<>>]

\* a handler calls its client function: the request cannot be made (the
\* URL does not parse, the dump to restore cannot be opened), or it is
\* sent once and the call returns a result or an error
ApiCall ==
    /\ cpc = "call"
    /\ ~IsDeploy(cmd)
    /\ cmd.name # "db dump"
    /\ \E outcome \in {"not sent", "ok", "err"} :
        /\ apiCalls' = IF outcome = "not sent" THEN apiCalls
                       ELSE Append(apiCalls, RequestOf(cmd))
        /\ apiResult' = IF outcome = "ok" THEN "ok" ELSE "err"
        /\ apiCause' = IF outcome = "ok" THEN "" ELSE outcome
    /\ cpc' = AfterCall(cmd)
    /\ UNCHANGED <<cmd, exit, done, spinner, frames, stdout, answer, outFile>>
    /\ UNCHANGED runVars

\* the bytes of the dump the service sends
DumpBody == << "d1", "d2", "d3" >>

\* what DumpDatabase has written to out when it returns: everything after
\* io.Copy went through, the first k bytes when it failed, nothing when the
\* request failed or the status was not 200
DumpWritten(outcome, k) ==
    IF outcome = "ok" THEN DumpBody
    ELSE IF outcome = "copy" THEN SubSeq(DumpBody, 1, k) ELSE <<>>

\* runDbDump calls db.DumpDatabase
DumpCall ==
    /\ cpc = "call"
    /\ cmd.name = "db dump"
    /\ \E outcome \in {"not sent", "transport", "status", "copy", "ok"},
          k \in 0..(Len(DumpBody) - 1) :
        /\ outcome # "copy" => k = 0
        /\ apiCalls' = IF outcome = "not sent" THEN apiCalls
                       ELSE Append(apiCalls, RequestOf(cmd))
        /\ apiResult' = IF outcome = "ok" THEN "ok" ELSE "err"
        /\ apiCause' = IF outcome = "ok" THEN "" ELSE outcome
        /\ outFile' = [outFile EXCEPT !.data = DumpWritten(outcome, k)]
    /\ cpc' = AfterCall(cmd)
    /\ UNCHANGED <<cmd, exit, done, spinner, frames, stdout, answer>>
    /\ UNCHANGED runVars

\* close of a channel: a nil or a closed channel makes it panic
closeChan(ch) == IF ch = "open" THEN "closed" ELSE "panic"

\* close(done), right after the call (a panic ends the process with
\* status 2)
CloseDone ==
    /\ cpc = "returned"
    /\ done' = closeChan(done)
    /\ IF closeChan(done) = "panic"
       THEN cpc' = "exited" /\ exit' = << 2 >>
       ELSE cpc' = "report" /\ UNCHANGED exit
    /\ UNCHANGED <<cmd, spinner, frames, stdout, answer, apiCalls, apiResult, apiCause,
                   outFile>>
    /\ UNCHANGED runVars

\* a file that is closed and left where it is
RemoveSkipped(f) == [f EXCEPT !.state = "closed"]

\* f.Close() and os.Remove(outPath)
Remove(f) == [state |-> "removed", data |-> <<>>]

\* the handler prints the result line (on a failure db dump closes and
\* removes its output file first; db delete --quiet prints no success line)
Report ==
    /\ cpc = "report"
    /\ IF apiResult = "err"
       THEN /\ stdout' = Append(stdout, "failed")
            /\ outFile' = IF cmd.name = "db dump" THEN Remove(outFile) ELSE outFile
       ELSE /\ stdout' = IF cmd.name = "db delete" /\ cmd.quiet
                         THEN stdout ELSE Append(stdout, "success")
            /\ UNCHANGED outFile
    /\ cpc' = "exit"
    /\ UNCHANGED <<cmd, exit, done, spinner, frames, answer, apiCalls, apiResult, apiCause>>
    /\ UNCHANGED runVars

\* os.Exit(1) after a failure; after a success the handler returns (the
\* deferred f.Close of db dump runs) and the process ends with status 0
ProcessExit ==
    /\ cpc = "exit"
    /\ exit' = << IF apiResult = "err" THEN 1 ELSE 0 >>
    /\ cpc' = "exited"
    /\ outFile' = IF outFile.state = "open" THEN [outFile EXCEPT !.state = "closed"]
                  ELSE outFile
    /\ UNCHANGED <<cmd, done, spinner, frames, stdout, answer, apiCalls, apiResult, apiCause>>
    /\ UNCHANGED runVars

ZeroOptions ==
    [APIURL |-> <<>>, APIToken |-> <<>>, Path |-> <<>>, Force |-> FALSE,
     Env |-> <<>>, CPU |-> <<>>, Memory |-> <<>>, Port |-> <<>>]

InitCmd ==
    /\ hostSep = "/"
    /\ rootName = NameApp
    /\ tree \in {<<>>, ExampleTree}
    /\ opts = ZeroOptions
    /\ pc = "idle"
    /\ todo = <<>>
    /\ tw = NewWriter
    /\ archive = NoArchive
    /\ archErr = NoErr
    /\ stages = <<>>
    /\ opened = {}
    /\ call = <<>>
    /\ body = <<>>
    /\ requests = <<>>
    /\ response = <<>>
    /\ result = <<>>
    /\ cmd \in Invocations
    /\ cpc = "start"
    /\ exit = <<>>
    /\ done = "nil"
    /\ spinner = "none"
    /\ frames = 0
    /\ stdout = <<>>
    /\ answer = <<>>
    /\ apiCalls = <<>>
    /\ apiResult = "none"
    /\ apiCause = ""
    /\ outFile = NoFile

NextCmd ==
    \/ CheckToken
    \/ DeployChecks
    \/ UpdateChecks
    \/ DumpCreate
    \/ Confirm
    \/ StartSpinner
    \/ SpinnerSelect
    \/ SpinnerPrint
    \/ SpinnerErase
    \/ DeployCallRun
    \/ RunStart
    \/ WalkStep
    \/ CloseArchive
    \/ CheckArchive
    \/ SizeCheck
    \/ CallUpload
    \/ BuildBody
    \/ Send(RunResponses)
    \/ Receive
    \/ RunReturned
    \/ ApiCall
    \/ DumpCall
    \/ CloseDone
    \/ Report
    \/ ProcessExit

SpecCmd == InitCmd /\ [][NextCmd]_vars

(***************************************************************************)
(* Properties.                                                             *)
(***************************************************************************)
Returned == pc = "done" /\ result # <<>>
Built == ~archive.isNil
SizeError == Returned /\ result[1].err.kind = "size"

\* C1: Run returns the size-limit error if and only if the compressed
\* archive is longer than 50*1024*1024 bytes (an archive of exactly that
\* length goes on to the upload), and when it returns the size-limit error
\* no HTTP request has been dispatched.
C1_SizeLimitIffTooLong ==
    /\ SizeError => Built /\ archive.len > 50 * 1024 * 1024 /\ requests = <<>>
    /\ Returned /\ Built /\ archive.len > 50 * 1024 * 1024 => SizeError
    /\ Returned /\ Built /\ archive.len <= 50 * 1024 * 1024
          => ~SizeError /\ call # <<>> /\ Len(requests) = 1

C1_Witness ==
    /\ SizeError
    /\ archive.len = 50 * 1024 * 1024 + 1
    /\ tw.entries # <<>>

StageOrder == << "archive", "size", "upload" >>

\* C2: the stages of Run happen in the order archive build, size check,
\* upload, each at most once, and none after a failed one: when
\* createArchive returns an error, Run returns an error, and neither the
\* size check nor an HTTP request follows; no request precedes the upload
\* stage.
C2_StagesInOrder ==
    /\ Len(stages) <= 3 /\ stages = SubSeq(StageOrder, 1, Len(stages))
    /\ archErr.kind # "nil" =>
          /\ stages = << "archive" >>
          /\ body = <<>> /\ requests = <<>> /\ call = <<>>
          /\ pc \in {"built", "done"}
          /\ pc = "done" => result[1].err.kind # "nil" /\ result[1].resp = <<>>
    /\ SizeError => stages = << "archive", "size" >> /\ call = <<>>
    /\ (requests # <<>> \/ body # <<>> \/ call # <<>>) => stages = StageOrder
    /\ Len(requests) <= 1

C2_Witness ==
    /\ Returned
    /\ archErr.kind # "nil"
    /\ tw.entries # <<>>
    /\ result[1].err.kind = "failed to create archive"

(***************************************************************************)
(* The tree, as the properties about the archive see it.                   *)
(***************************************************************************)
Nodes == 0..Len(tree)

\* the elements of a path, split at either separator
RECURSIVE SplitPath(_)
SplitPath(p) ==
    LET seps == {i \in DOMAIN p : p[i] \in HostSeps}
    IN  IF seps = {} THEN << p >>
        ELSE << SubSeq(p, 1, Min(seps) - 1) >> \o SplitPath(SubSeq(p, Min(seps) + 1, Len(p)))

\* the node of the tree with these path elements
NodeAt(segs) ==
    LET hits == {n \in Nodes : Segs(n) = segs}
    IN  IF hits = {} THEN NoNode ELSE CHOOSE n \in hits : TRUE

EntryNode(e) == NodeAt(SplitPath(e.name))

Range(q) == {q[i] : i \in DOMAIN q}

\* a name matches an exclusion rule
NameMatch(nm) ==
    \/ nm \in Range(excludedPaths)
    \/ ToLower(Ext(nm)) \in Range(excludedExtensions)

\* the node or a directory above it, below the root, matches a rule
Pruned(n) == \E a \in AncSelf(tree, n) \ {0} : NameMatch(tree[a].name)
Included(n) == n # 0 /\ ~Pruned(n)
EntryCount(n) ==
    Cardinality({i \in DOMAIN tw.entries : SplitPath(tw.entries[i].name) = Segs(n)})

\* C3: no entry is written whose last path element equals an excludedPaths
\* name or has a lower-cased extension in excludedExtensions, nor an entry
\* below a directory that matches; the tree app.go, .git/, id_rsa yields
\* exactly the entry app.go.
C3_ExcludedAbsent ==
    /\ \A i \in DOMAIN tw.entries :
          \A seg \in Range(SplitPath(tw.entries[i].name)) : ~NameMatch(seg)
    /\ Built /\ tree = ExampleTree =>
          Len(archive.entries) = 1 /\ archive.entries[1].name = NameApp

C3_Witness ==
    /\ Built
    /\ archive.entries # <<>>
    /\ \E d, c \in DOMAIN tree :
          /\ Kind(d) = "dir" /\ NameMatch(tree[d].name)
          /\ tree[c].parent = d /\ ~NameMatch(tree[c].name)

\* C4: after a successful createArchive a node is an entry, exactly once,
\* if and only if it is not the root, matches no exclusion rule and lies
\* below no matching directory; a match on a file removes that file only.
C4_EntriesAreIncludedNodes ==
    Built =>
        /\ \A n \in Nodes : EntryCount(n) = IF Included(n) THEN 1 ELSE 0
        /\ Len(archive.entries) = Cardinality({n \in Nodes : Included(n)})
        /\ archive.entries = tw.entries

C4_Witness ==
    /\ Built
    /\ \E f, s \in DOMAIN tree :
          /\ Kind(f) # "dir" /\ NameMatch(tree[f].name)
          /\ tree[s].parent = tree[f].parent /\ StrLess(tree[f].name, tree[s].name)
          /\ EntryCount(s) = 1
    /\ \E d, s \in DOMAIN tree :
          /\ Kind(d) = "dir" /\ NameMatch(tree[d].name)
          /\ tree[s].parent = tree[d].parent /\ EntryCount(s) = 1

SymlinkPaths == {PathOf(AbsPath, Segs(n)) : n \in {m \in DOMAIN tree : Kind(m) = "symlink"}}

\* C5: the entry of a symbolic link carries the link's target string and
\* no content (size 0); content in the archive is only ever the content of
\* the regular file the entry names, no link is opened, and no entry lies
\* below a link (every entry names a node of the tree itself).
C5_SymlinksNotFollowed ==
    /\ \A i \in DOMAIN tw.entries :
          LET e == tw.entries[i]
              n == EntryNode(e)
          IN  /\ n \in DOMAIN tree
              /\ Kind(n) = "symlink" =>
                    /\ e.typeflag = "symlink"
                    /\ e.linkname = tree[n].link
                    /\ e.size = 0
                    /\ e.data = <<>>
              /\ e.data # <<>> => Kind(n) = "regular" /\ e.data = << n >>
    /\ opened \cap SymlinkPaths = {}

C5_Witness ==
    /\ Built
    /\ \E i \in DOMAIN archive.entries :
          LET n == EntryNode(archive.entries[i])
          IN  /\ archive.entries[i].typeflag = "symlink"
              /\ archive.entries[i].linkname = NameApp
              /\ Follow(n, 1) \in DOMAIN tree
              /\ Kind(Follow(n, 1)) = "regular"

\* C6: the root directory is never written as an entry: no entry is named
\* "." and every entry names a node below the root; an empty root gives an
\* archive without entries, and below a root whose own name matches an
\* exclusion rule the nodes that match none are archived.
C6_RootNeverAnEntry ==
    /\ \A i \in DOMAIN tw.entries :
          /\ tw.entries[i].name \notin {Dot, <<>>}
          /\ EntryNode(tw.entries[i]) \in DOMAIN tree
    /\ Built /\ tree = <<>> => archive.entries = <<>>
    /\ Built /\ NameMatch(rootName) =>
          \A n \in DOMAIN tree :
              tree[n].parent = 0 /\ ~NameMatch(tree[n].name) => EntryCount(n) = 1

C6_Witness ==
    /\ Built
    /\ NameMatch(rootName)
    /\ archive.entries # <<>>

\* the entry name of a node: its path below the root with forward slashes
RECURSIVE SlashJoin(_)
SlashJoin(segs) ==
    IF segs = <<>> THEN <<>>
    ELSE IF Len(segs) = 1 THEN segs[1]
    ELSE segs[1] \o << "/" >> \o SlashJoin(Tail(segs))

\* C7: every archive entry name is the root-relative path with forward
\* slashes as separators, whatever the host separator: no entry name
\* contains a backslash when the host separator is a backslash.
C7_ForwardSlashNames ==
    \A i \in DOMAIN tw.entries :
        LET e == tw.entries[i]
        IN  /\ e.name = SlashJoin(SplitPath(e.name))
            /\ hostSep = "\\" => \A k \in DOMAIN e.name : e.name[k] # "\\"

\* C8: createArchive never returns a partial archive.  Bytes are returned
\* only with every included node written once, each regular file with all
\* of its content; when a step of the walk or the closing of the tar
\* stream fails, createArchive returns nil bytes with the error, the walk
\* has stopped at the failing node, and Run returns an error without
\* building a body or sending a request.
C8_NoPartialArchive ==
    /\ Built =>
          /\ archErr = NoErr
          /\ ~tw.short
          /\ \A n \in Nodes : Included(n) => EntryCount(n) = 1
          /\ \A i \in DOMAIN archive.entries :
                LET e == archive.entries[i]
                IN  /\ Len(e.data) = e.size
                    /\ e.typeflag = "regular" => e.data = Content(EntryNode(e))
    /\ archErr # NoErr =>
          /\ ~Built
          /\ pc \in {"built", "done"}
          /\ archErr.kind = "walk" => todo # <<>>
          /\ call = <<>> /\ body = <<>> /\ requests = <<>>
          /\ pc = "done" => result[1].resp = <<>> /\ result[1].err.kind # "nil"

C8_Witness ==
    /\ Returned
    /\ archErr.cause = "copy"
    /\ Len(tw.entries) >= 2
    /\ result[1].err.kind = "failed to create archive"

(***************************************************************************)
(* The multipart body, as the service reads it.                            *)
(***************************************************************************)
BodyBuilt == pc \in {"send", "recv", "done"}
Args == call[1]

PartsNamed(nm) == {i \in DOMAIN body : body[i].name = nm}
TextOf(nm) == body[CHOOSE i \in PartsNamed(nm) : TRUE].text

\* a KEY=value argument is valid when "=" occurs in it after a non-empty key
ValidPair(p) == \E i \in DOMAIN p : i > 1 /\ p[i] = "=" /\ \A j \in 1..(i - 1) : p[j] # "="

\* a field is in the body once when its value is present, and not at all
\* (so never empty) when it is absent
FieldOnceIff(nm, present) ==
    /\ Cardinality(PartsNamed(nm)) = IF present THEN 1 ELSE 0
    /\ \A i \in PartsNamed(nm) : body[i].text # <<>> /\ body[i].file = <<>>

\* C9: in the multipart body built by upload the archive part is present
\* exactly once, and each optional text field is present exactly once when
\* its value is present and absent otherwise, never sent empty: force (with
\* the value "true") only when the flag is set, app_name, cpu, memory and
\* port only when their string is non-empty, env_vars only when there is a
\* valid KEY=value pair; the request carries this body.
C9_FieldsOmittedWhenAbsent ==
    BodyBuilt =>
        /\ Cardinality(PartsNamed("archive")) = 1
        /\ \A i \in PartsNamed("archive") :
              body[i].file = << Args.archive >> /\ body[i].filename = "app.tar.gz"
        /\ FieldOnceIff("force", Args.force)
        /\ Args.force => TextOf("force") = << "t", "r", "u", "e" >>
        /\ FieldOnceIff("app_name", Args.appName # <<>>)
        /\ Args.appName # <<>> => TextOf("app_name") = Args.appName
        /\ FieldOnceIff("cpu", Args.cpu # <<>>)
        /\ Args.cpu # <<>> => TextOf("cpu") = Args.cpu
        /\ FieldOnceIff("memory", Args.memory # <<>>)
        /\ Args.memory # <<>> => TextOf("memory") = Args.memory
        /\ FieldOnceIff("port", Args.port # <<>>)
        /\ Args.port # <<>> => TextOf("port") = Args.port
        /\ FieldOnceIff("env_vars", \E i \in DOMAIN Args.envPairs : ValidPair(Args.envPairs[i]))
        /\ \A i \in DOMAIN body :
              body[i].name \in {"archive", "force", "app_name", "env_vars", "cpu", "memory", "port"}
        /\ \A k \in DOMAIN requests : requests[k].body = body

C9_Witness ==
    /\ requests # <<>>
    /\ Args.force /\ Args.cpu # <<>>
    /\ Args.memory = <<>> /\ Args.port = <<>> /\ Args.appName = <<>>
    /\ Args.envPairs # <<>> /\ PartsNamed("env_vars") = {}
    /\ Len(requests[1].body) = 3

\* A JSON object of string members, read back: the members in the order
\* written, or Malformed.
Malformed == [ok |-> FALSE, members |-> <<>>]
Object(members) == [ok |-> TRUE, members |-> members]

\* the string literal that opens at t[i - 1]: its value and the index
\* after its closing quote (0 when it does not close)
RECURSIVE ReadString(_, _, _)
ReadString(t, i, acc) ==
    IF i > Len(t) THEN [val |-> acc, next |-> 0]
    ELSE IF t[i] = "\"" THEN [val |-> acc, next |-> i + 1]
    ELSE IF t[i] = "\\" THEN
        (IF i + 1 > Len(t) THEN [val |-> acc, next |-> 0]
         ELSE ReadString(t, i + 2, Append(acc, t[i + 1])))
    ELSE ReadString(t, i + 1, Append(acc, t[i]))

RECURSIVE ReadMembers(_, _, _)
ReadMembers(t, i, acc) ==
    IF i > Len(t) \/ t[i] # "\"" THEN Malformed
    ELSE LET k == ReadString(t, i + 1, <<>>)
         IN  IF k.next = 0 \/ k.next + 1 > Len(t) \/ t[k.next] # ":" \/ t[k.next + 1] # "\""
             THEN Malformed
             ELSE LET v == ReadString(t, k.next + 2, <<>>)
                      members == Append(acc, [key |-> k.val, value |-> v.val])
                  IN  IF v.next = 0 \/ v.next > Len(t) THEN Malformed
                      ELSE IF t[v.next] = "}" /\ v.next = Len(t) THEN Object(members)
                      ELSE IF t[v.next] = "," THEN ReadMembers(t, v.next + 1, members)
                      ELSE Malformed

ReadObject(t) ==
    IF Len(t) < 2 \/ t[1] # "{" THEN Malformed
    ELSE IF t = << "{", "}" >> THEN Object(<<>>)
    ELSE ReadMembers(t, 2, <<>>)

KeyOf(p) == SubSeq(p, 1, Min({i \in DOMAIN p : p[i] = "="}) - 1)
ValueOf(p) == SubSeq(p, Min({i \in DOMAIN p : p[i] = "="}) + 1, Len(p))

\* C10: environment overrides are sent as one env_vars field that holds a
\* single JSON object with unique keys, one per key of a valid KEY=value
\* pair; the value sent for a key is the value of its last occurrence in
\* the input order.
C10_EnvVarsOneObjectLastWins ==
    BodyBuilt =>
        /\ Cardinality(PartsNamed("env_vars")) <= 1
        /\ \A i \in PartsNamed("env_vars") :
              LET object == ReadObject(body[i].text)
                  members == object.members
                  pairs == Args.envPairs
                  valid == {j \in DOMAIN pairs : ValidPair(pairs[j])}
              IN  /\ object.ok
                  /\ members # <<>>
                  /\ \A a, b \in DOMAIN members :
                        members[a].key = members[b].key => a = b
                  /\ {members[a].key : a \in DOMAIN members} = {KeyOf(pairs[j]) : j \in valid}
                  /\ \A a \in DOMAIN members :
                        LET last == Max({j \in valid : KeyOf(pairs[j]) = members[a].key})
                        IN  members[a].value = ValueOf(pairs[last])

C10_Witness ==
    /\ requests # <<>>
    /\ Args.envPairs = << EnvA1, EnvA2 >>
    /\ PartsNamed("env_vars") # {}
    /\ ReadObject(TextOf("env_vars")) = Object(<< [key |-> << "A" >>, value |-> << "2" >>] >>)

\* C11: the app_name sent by Run is the base name of the absolute form of
\* opts.Path, an empty Path standing for ".": however Path names the
\* deployed directory (empty, ".", "./", absolute, through ".."), and
\* whatever the other options are, upload is called with the name of that
\* directory and the request carries it as its one app_name field.
C11_AppNameIsBaseOfAbsPath ==
    /\ call # <<>> => call[1].appName = rootName
    /\ \A k \in DOMAIN requests :
          LET named == {i \in DOMAIN requests[k].body : requests[k].body[i].name = "app_name"}
          IN  /\ Cardinality(named) = 1
              /\ \A i \in named : requests[k].body[i].text = rootName

C11_Witness ==
    /\ requests # <<>>
    /\ hostSep = "\\"
    /\ opts.Path = << ".", ".", "\\" >> \o rootName
    /\ opts.Force
    /\ TextOf("app_name") = rootName

(***************************************************************************)
(* The response, as the service sent it.                                   *)
(***************************************************************************)
Answer == response[1]
Outcome == result[1]
SuccessFamily == {200, 201}

\* upload returned after reading the whole response
Interpreted == Returned /\ response # <<>> /\ Outcome.err.kind # "failed to read response"

HasKey(v, key) == v.t = "obj" /\ \E i \in DOMAIN v.m : v.m[i].k = key
SentValue(v, key) == v.m[CHOOSE i \in DOMAIN v.m : v.m[i].k = key].v
SentStr(v, key) == IF HasKey(v, key) THEN SentValue(v, key).s ELSE <<>>

\* C12: upload returns a record with a nil error only for a response with
\* status 200 or 201 (the created/ok statuses), whose body it decodes as a
\* deployment record and nothing else; for every other status, whatever
\* the body, it returns no record and an error made from the error body.
C12_RecordOnlyForCreatedOrOk ==
    Returned =>
        /\ Outcome.err.kind = "nil" <=> Outcome.resp # <<>>
        /\ Outcome.err.kind = "nil" => response # <<>> /\ Answer.status \in SuccessFamily
        /\ response # <<>> /\ Answer.status \in SuccessFamily =>
              Outcome.err.kind \in {"nil", "failed to parse response", "failed to read response"}
        /\ response # <<>> /\ Answer.status \notin SuccessFamily =>
              /\ Outcome.resp = <<>>
              /\ Outcome.err.kind \in {"api", "API error", "failed to read response"}

C12_Witness ==
    /\ Interpreted
    /\ Answer.status = 202
    /\ Answer.body = BodyCreated
    /\ Outcome.resp = <<>>
    /\ Outcome.err.kind = "api"

\* the body is JSON and carries an error object
HasErrorObject(b) == b.json /\ HasKey(b.val, "error") /\ SentValue(b.val, "error").t = "obj"

\* C13: for a response outside 200/201 whose body is not a structured
\* error (not JSON, or JSON without an error object) the error returned
\* carries the status code and the body as received, never a message made
\* of an empty code and an empty message.
C13_RawStatusAndBodyWhenUnparsed ==
    Interpreted /\ Answer.status \notin SuccessFamily /\ ~HasErrorObject(Answer.body) =>
        /\ Outcome.err.kind = "API error"
        /\ Outcome.err.status = Answer.status
        /\ Outcome.err.msg = Answer.body.raw

\* the status member of the body says "error"
StatusIndicatesError(b) == b.json /\ SentStr(b.val, "status") = << "error" >>

\* C14: whatever the HTTP status, 200 and 201 included, no record is
\* returned with a nil error for a body whose status member says "error".
C14_NoRecordForErrorBody ==
    Interpreted /\ StatusIndicatesError(Answer.body) =>
        Outcome.resp = <<>> /\ Outcome.err.kind # "nil"

\* the texts of want occur in msg, in this order
RECURSIVE InOrder(_, _)
InOrder(want, msg) ==
    IF want = <<>> THEN TRUE
    ELSE IF msg = <<>> THEN FALSE
    ELSE IF Head(want) = Head(msg) THEN InOrder(Tail(want), Tail(msg))
    ELSE InOrder(want, Tail(msg))

\* what the line of a validation detail has to show
DetailText(d) ==
    SentStr(d, "field") \o << ": " >> \o SentStr(d, "error") \o SentStr(d, "suggestion")
DetailHead(d) == SentStr(d, "field") \o << ": " >> \o SentStr(d, "error")

RECURSIVE DetailTexts(_)
DetailTexts(ds) == IF ds = <<>> THEN <<>> ELSE DetailText(Head(ds)) \o DetailTexts(Tail(ds))

DetailLine == "\n  - "

\* C15: the message of a structured error begins with "code: message";
\* then each validation detail has a line of its own that starts with
\* "field: problem", the lines are in the order the details were sent, and
\* fields, problems and the suggestions present all occur in that order.
\* The 422 scenario begins "VALIDATION_FAILED: invalid port" and has the
\* line "port: out of range".
C15_ErrorRendering ==
    Interpreted /\ Outcome.err.kind = "api" /\ HasErrorObject(Answer.body) =>
        LET e == SentValue(Answer.body.val, "error")
            ds == IF HasKey(e, "details") THEN SentValue(e, "details").m ELSE <<>>
            msg == Outcome.err.msg
            first == SentStr(e, "code") \o << ": " >> \o SentStr(e, "message")
            lines == {i \in DOMAIN msg : msg[i] = DetailLine}
            LineOf(k) == CHOOSE i \in lines : Cardinality({j \in lines : j <= i}) = k
        IN  /\ SubSeq(msg, 1, Len(first)) = first
            /\ InOrder(first \o DetailTexts(ds), msg)
            /\ Cardinality(lines) = Len(ds)
            /\ \A k \in DOMAIN ds :
                  SubSeq(msg, LineOf(k) + 1, LineOf(k) + Len(DetailHead(ds[k]))) = DetailHead(ds[k])
            /\ Answer.body = BodyErrorOne =>
                  /\ SubSeq(msg, 1, 3) = << "VALIDATION_FAILED", ": ", "invalid port" >>
                  /\ \E i \in lines : SubSeq(msg, i + 1, i + 3) = << "port", ": ", "out of range" >>

C15_Witness ==
    /\ Interpreted
    /\ Answer.status = 422
    /\ Answer.body = BodyError
    /\ InOrder(<< "port", "out of range", "cpu", "bad unit", "use 500m" >>, Outcome.err.msg)

\* C16: one execution dispatches at most one request.  A request that got
\* no response is not sent again: the call has returned the transport
\* failure, without a record.
C16_SingleRequestNoRetry ==
    /\ Len(requests) <= 1
    /\ requests # <<>> /\ response = <<>> =>
          /\ Returned
          /\ Outcome.err.kind = "request failed"
          /\ Outcome.resp = <<>>
    /\ Returned /\ Outcome.err.kind = "request failed" => Len(requests) = 1

C16_Witness ==
    /\ Returned
    /\ Outcome.err.kind = "request failed"
    /\ Len(requests) = 1
    /\ response = <<>>

\* C18: a record returned for a success body shows what the body's
\* deployment object holds: the same id, alias, url and status; with a
\* health-check block the same health status, timestamp and latency, and
\* without one a nil health check.  The 201 scenario gives alias app1 and
\* status building.
C18_SuccessBodyDecodedFaithfully ==
    Interpreted /\ Outcome.err.kind = "nil" /\ HasKey(Answer.body.val, "deployment") =>
        LET d == SentValue(Answer.body.val, "deployment")
            rec == Outcome.resp[1].Deployment
        IN  /\ rec.ID = SentStr(d, "id")
            /\ rec.Alias = SentStr(d, "alias")
            /\ rec.URL = SentStr(d, "url")
            /\ rec.Status = SentStr(d, "status")
            /\ HasKey(d, "health_check") =>
                  /\ Len(rec.HealthCheck) = 1
                  /\ rec.HealthCheck[1].Status = SentStr(SentValue(d, "health_check"), "status")
                  /\ rec.HealthCheck[1].CheckedAt = SentStr(SentValue(d, "health_check"), "checked_at")
                  /\ rec.HealthCheck[1].ResponseTimeMs =
                        SentValue(SentValue(d, "health_check"), "response_time_ms").n
            /\ ~HasKey(d, "health_check") => rec.HealthCheck = <<>>
            /\ Answer.body = BodyCreated =>
                  rec.Alias = << "app1" >> /\ rec.Status = << "building" >>

C18_Witness ==
    /\ Interpreted
    /\ Answer.status = 200
    /\ Answer.body = BodyHealthy
    /\ Outcome.resp # <<>>
    /\ Outcome.resp[1].Deployment.HealthCheck # <<>>
    /\ Outcome.resp[1].Deployment.HealthCheck[1].ResponseTimeMs = 12

(***************************************************************************)
(* The command handlers.                                                   *)
(***************************************************************************)
Exited == cpc = "exited"
RunHasReturned == apiResult # "none"
Printed(line) == \E i \in DOMAIN stdout : stdout[i] = line
Dispatched(method) == \E i \in DOMAIN apiCalls : apiCalls[i].method = method
NothingSent == apiCalls = <<>> /\ requests = <<>>

\* C17: in runDeploy the done channel is closed after deploy.Run has
\* returned, and it is closed before the success or the failure message is
\* printed and before the process exits, whichever way Run returned.
C17_DoneClosedWhenRunReturns ==
    IsDeploy(cmd) =>
        /\ done = "closed" => RunHasReturned
        /\ RunHasReturned /\ (Printed("success") \/ Printed("failed") \/ Exited)
               => done = "closed"

\* the runDeploy that closes done does so on both paths
C17_HoldsWhereDoneIsClosed == cmd.version = "new" => C17_DoneClosedWhenRunReturns

\* C19: apps delete, db delete and secrets delete send a DELETE request only
\* with --yes or after an affirmative answer to the prompt (y, or Enter for
\* the default); when the user declines, the command exits with status 0
\* and has sent nothing.
C19_DeleteOnlyWhenConfirmed ==
    /\ Dispatched("DELETE") =>
          /\ IsDelete(cmd)
          /\ cmd.yes \/ answer \in {<< "yes" >>, << "enter" >>}
    /\ IsDelete(cmd) /\ answer \in {<< "no" >>, << "interrupt" >>} =>
          /\ Exited
          /\ exit = << 0 >>
          /\ NothingSent

\* db delete, declined at the prompt
C19_Witness ==
    /\ cmd.name = "db delete"
    /\ ~cmd.yes
    /\ answer = << "no" >>
    /\ exit = << 0 >>

TokenEmpty == Getenv(IF cmd.environ # <<>> THEN cmd.environ ELSE cmd.dotenv) = <<>>

\* C20: with an empty DIBBLA_API_TOKEN every platform command exits with
\* status 1 as its next step and sends no request; db dump does not
\* create its output file and deploy builds no archive.
C20_NoTokenNoRequest ==
    cmd.name \in CommandNames /\ TokenEmpty =>
        /\ cpc \in {"start", "exited"}
        /\ Exited => exit = << 1 >>
        /\ NothingSent
        /\ outFile = NoFile
        /\ pc = "idle" /\ stages = <<>> /\ archive = NoArchive /\ tw = NewWriter

\* db dump with the token set to the empty string (a .env file has one)
C20_Witness ==
    /\ cmd.name = "db dump"
    /\ cmd.environ = << <<>> >>
    /\ cmd.dotenv = << Token >>
    /\ exit = << 1 >>
    /\ outFile = NoFile

(***************************************************************************)
(* The message of the size guard.                                          *)
(***************************************************************************)
LimitStatedMB == 50

\* C21: when the size guard rejects an archive, the size in MB that the
\* error states is greater than the 50 MB limit that it states.
C21_StatedSizeAboveStatedLimit ==
    SizeError => result[1].err.mb > LimitStatedMB

(***************************************************************************)
(* The KEY=value pairs, one by one.                                        *)
(***************************************************************************)
EnvMembers == ReadObject(TextOf("env_vars")).members
StartsWith(p, q) == Len(p) >= Len(q) /\ SubSeq(p, 1, Len(q)) = q

\* C22: envPairsToJSON splits a pair at its first "=": a key sent has no
\* "=" in it and is not empty, and key, "=" and value together are one of
\* the pairs given, so a value may hold "=" or be empty; a pair without
\* "=" or with an empty key is dropped and the call goes on; env_vars is
\* absent exactly when no pair is valid.
C22_PairsSplitAtFirstEq ==
    BodyBuilt =>
        LET pairs == Args.envPairs
            valid == {j \in DOMAIN pairs : ValidPair(pairs[j])}
        IN  /\ PartsNamed("env_vars") = {} <=> valid = {}
            /\ valid # {} =>
                  /\ \A a \in DOMAIN EnvMembers :
                        LET m == EnvMembers[a]
                        IN  /\ m.key # <<>>
                            /\ \A k \in DOMAIN m.key : m.key[k] # "="
                            /\ \E j \in valid : pairs[j] = m.key \o << "=" >> \o m.value
                  /\ \A j \in valid : \E a \in DOMAIN EnvMembers :
                        StartsWith(pairs[j], EnvMembers[a].key \o << "=" >>)
                  /\ Len(EnvMembers) <= Cardinality(valid)
            /\ Returned /\ Args.apiURL # UrlBad => requests # <<>>

\* a pair without "=" is dropped, and a value with "=" in it is kept whole
C22_Witness ==
    /\ requests # <<>>
    /\ Args.envPairs = << EnvNoEq, EnvTwoEq >>
    /\ EnvMembers = << [key |-> << "A" >>, value |-> << "1", "=", "2" >>] >>

(***************************************************************************)
(* apps update: the port and the replicas of the request.                  *)
(***************************************************************************)
IsUpdate == cmd.name = "apps update"
PortGiven == cmd.portFlag # <<>>
PortGivenOutOfRange == PortGiven /\ ~(cmd.portFlag[1] \in 1..65535)

\* C23: apps update sends a port only when the --port given is within
\* 1..65535; with a --port given outside 1..65535 it sends no request, and
\* it ends with the range error and status 1.
C23_PortOutOfRangeRejected ==
    IsUpdate =>
        /\ \A i \in DOMAIN apiCalls :
              apiCalls[i].body[1].Port # <<>> =>
                  /\ PortGiven
                  /\ apiCalls[i].body[1].Port = cmd.portFlag
                  /\ cmd.portFlag[1] \in 1..65535
        /\ PortGivenOutOfRange => apiCalls = <<>>
        /\ PortGivenOutOfRange /\ Exited /\ ~Printed("token required") =>
              exit = << 1 >> /\ Printed("port out of range")

(***************************************************************************)
(* The order of the entries.                                               *)
(***************************************************************************)
\* p comes before q in a depth-first walk that takes the names of each
\* directory in byte order: p is a proper ancestor of q, or at the first
\* element in which they differ p has the smaller name
RECURSIVE WalkedBefore(_, _)
WalkedBefore(p, q) ==
    IF q = <<>> THEN FALSE
    ELSE IF p = <<>> THEN TRUE
    ELSE IF Head(p) # Head(q) THEN StrLess(Head(p), Head(q))
    ELSE WalkedBefore(Tail(p), Tail(q))

EntryPath(i) == SplitAt(tw.entries[i].name)

\* C24: the entries are written in the one order a depth-first walk in
\* lexical name order gives: of two entries the earlier one is an ancestor
\* of the later one or precedes it by name where their paths part, so a
\* tree has one sequence of entries, siblings come in name order and a
\* directory's entry comes before those of its descendants.
C24_EntriesInWalkOrder ==
    \A i, j \in DOMAIN tw.entries :
        i < j => WalkedBefore(EntryPath(i), EntryPath(j))

\* a directory, an entry below it and a later sibling of the directory
C24_Witness ==
    /\ Built
    /\ Len(tw.entries) = 3
    /\ Len(EntryPath(1)) = 1 /\ tw.entries[1].typeflag = "dir"
    /\ Len(EntryPath(2)) = 2 /\ EntryPath(2)[1] = EntryPath(1)[1]
    /\ Len(EntryPath(3)) = 1

(***************************************************************************)
(* The spinner and the result line.                                        *)
(***************************************************************************)
IsResultLine(line) == line \in {"success", "failed"}
ResultPrinted == \E i \in DOMAIN stdout : IsResultLine(stdout[i])

\* C25: in runDeploy the spinner has written its erase sequence and has
\* stopped when the main flow prints the success or the failure line, and
\* no spinner frame is written after that line.
C25_SpinnerStoppedBeforeResult ==
    IsDeploy(cmd) /\ ResultPrinted =>
        /\ spinner = "stopped"
        /\ \A i, j \in DOMAIN stdout :
              IsResultLine(stdout[i]) =>
                  /\ j > i => stdout[j] \notin {"frame", "erase"}
                  /\ \E k \in 1..(i - 1) : stdout[k] = "erase"

(***************************************************************************)
(* The done channel.                                                       *)
(***************************************************************************)
\* C26: done is a one-shot signal: it is made once and closed at most
\* once, never when it is nil or closed already (no close panics), db
\* delete --quiet leaves it nil, and only the handler changes it: no step
\* of the spinner goroutine does.
C26_DoneClosedAtMostOnce ==
    /\ [](done # "panic")
    /\ [](cmd.name = "db delete" /\ cmd.quiet => done = "nil")
    /\ [][done' # done =>
            /\ \/ done = "nil" /\ done' = "open"
               \/ done = "open" /\ done' = "closed"
            /\ cpc' # cpc]_vars

\* db delete --quiet has sent its request and ended without a channel
C26_Witness ==
    /\ cmd.name = "db delete" /\ cmd.quiet
    /\ Dispatched("DELETE")
    /\ exit = << 0 >>
    /\ done = "nil"

(***************************************************************************)
(* What Run returns.                                                       *)
(***************************************************************************)
\* C27: on every path Run returns a record or an error and never both or
\* neither (the record is there exactly when the error is nil), whether it
\* ends at the path, the archive, the size guard, the request or the
\* response; a response with a success status whose body is not JSON
\* gives the parse error and no record.
C27_ResultXorError ==
    /\ pc = "done" => Len(result) = 1
    /\ Returned =>
          /\ (result[1].resp # <<>>) # (result[1].err.kind # "nil")
          /\ Len(result[1].resp) <= 1
          /\ /\ response # <<>>
             /\ response[1].status \in {200, 201}
             /\ ~response[1].body.json
             /\ result[1].err.kind # "failed to read response"
             => /\ result[1].resp = <<>>
                /\ result[1].err.kind = "failed to parse response"

\* status 200 with an HTML page for a body, after an archive with entries
C27_Witness ==
    /\ Returned
    /\ tw.entries # <<>>
    /\ response = << [status |-> 200, body |-> BodyHtml] >>
    /\ result[1].resp = <<>>
    /\ result[1].err.kind = "failed to parse response"

\* C28: for a --replicas value that is not negative the replicas number of
\* the update request is the value given, and for a negative value (or
\* without the flag) the request has no replicas field.
C28_ReplicasSentAsGiven ==
    IsUpdate =>
        \A i \in DOMAIN apiCalls :
            LET sent == apiCalls[i].body[1].Replicas
            IN  IF cmd.replicasFlag # <<>> /\ cmd.replicasFlag[1].q >= 0
                THEN sent = cmd.replicasFlag
                ELSE sent = <<>>

(***************************************************************************)
(* db dump and its output file.                                            *)
(***************************************************************************)
IsDump == cmd.name = "db dump"
DumpFailed == IsDump /\ apiResult = "err"

BaseNoSlash == Url

\* C30: whether the base URL is configured as B or as B/, each client
\* sends its request to B followed by the endpoint path, which begins with
\* the one slash between them.
C30_TrailingSlashNormalised ==
    cmd.name \in CommandNames =>
        /\ \A i \in DOMAIN apiCalls :
              apiCalls[i].url = BaseNoSlash \o apiCalls[i].resource
        /\ \A k \in DOMAIN requests :
              requests[k].url = BaseNoSlash \o << "/", "deployments" >>

====
